---- MODULE Spec2Model ----
(***************************************************************************)
(* A model of the cue library (github.com/davidcoles/cue): the health      *)
(* monitor (mon.Mon: one probe loop per Instance with a 5-sample           *)
(* hysteresis window) and the Director that drives it.                     *)
(***************************************************************************)
EXTENDS Integers, Sequences, FiniteSets, TLC

(***************************************************************************)
(* Bounds of the model and constants of the program.                       *)
(***************************************************************************)

\* probe loops of one Instance that may be alive at once (the one in the
\* monitor's map and the ones whose channel is closed but have not returned)
MaxLoops == 2

\* Checks values a caller lets pile up unreceived on one loop's channel
MaxPending == 1

\* capacity of a probe loop's Checks channel: make(chan Checks, 10)
ChanCap == 10

\* length of the probe history: var history [5]bool
Window == 5

\* protocol numbers accepted by the Director
TCP == 6

UDP == 17

Min(a, b) == IF a < b THEN a ELSE b

(***************************************************************************)
(* The universe of values.                                                 *)
(***************************************************************************)

VIPs == {1, 2}

Ports == {0, 80}

\* TCP, UDP and a protocol number the Director refuses (1: ICMP)
Protos == {1, TCP, UDP}

DestAddrs == {1, 2}

\* values of type Checks ([]Check); 0 is the nil slice
CheckSets == {0, 1}

Tuples == [Address : VIPs, Port : Ports, Protocol : Protos]

DestKeys == [Address : DestAddrs, Port : Ports]

\* mon.Instance restricted to what a validated configuration can hold
Instances ==
    {i \in [Service : Tuples, Destination : DestKeys] :
        /\ i.Service.Port # 0
        /\ i.Service.Protocol \in {TCP, UDP}
        /\ i.Destination.Port # 0}

Slots == 1 .. MaxLoops

LoopIds == Instances \X Slots

\* mon.Target
Targets == [Init : BOOLEAN, Checks : CheckSets]

VARIABLES
    services,   \* Mon.services: Instance -> the slot of its *state (0: absent)
    loops,      \* per probe loop: the *state, its channel and the goroutine's locals
    monC,       \* Mon.C, a channel of capacity 1: the number of signals buffered
    cfg,        \* Director.cfg: tuple -> Service
    err,        \* what the last Director.Start or Director.Configure returned
    bg,         \* Director.background: "off", "run", "dying" or "done"
    die,        \* Director.die is closed
    dirC,       \* Director.C, a channel of capacity 1
    balanced,   \* the list last handed to Balancer.Configure
    mutex,      \* Director.mutex: "free", or the caller that has locked it
    arg,        \* the argument of a function applied on its own
    res,        \* and what it returned: <<>>, then <<the value>>
    sessions,   \* the map sessions of the pool's task: peer -> slot of its *Session (0: absent)
    poolRib,    \* the variable rib of the pool's task
    pool,       \* the pool's task: where it stands, and the callers on its channels
    sess,       \* per Session: its fields, its channel and its goroutine's locals
    connection  \* a bgp connection: its fields, its writer and its reader

monVars == <<services, loops, monC>>

dirVars == <<cfg, err, bg, die, dirC, balanced, mutex>>

funVars == <<arg, res>>

bgpVars == <<sessions, poolRib, pool, sess, connection>>

restVars == <<arg, res, sessions, poolRib, pool, sess, connection>>

vars ==
    <<services, loops, monC, cfg, err, bg, die, dirC, balanced, mutex, arg,
      res, sessions, poolRib, pool, sess, connection>>

(***************************************************************************)
(* mon.Mon                                                                 *)
(***************************************************************************)

\* a slot with no goroutine
FreeLoop ==
    [pc |-> "free", q |-> <<>>, closed |-> FALSE,
     status |-> [OK |-> FALSE, Initialised |-> FALSE],
     history |-> [n \in 1 .. Window |-> FALSE],
     c |-> 0,
     was |-> [OK |-> FALSE, Initialised |-> FALSE],
     notified |-> <<>>, When |-> "Update"]

\* Notifier.Notify(instance, ok) as seen by a notifier that remembers the
\* last two calls made for one probe loop
Notify(log, ok) ==
    IF Len(log) < 2 THEN Append(log, ok) ELSE <<log[2], ok>>

\* select { case m.C <- true: default: }
Signal(ch) == 1

\* Mon.monitor: the channel, the first Notify and the goroutine's first
\* lines. When is status.When: "Update" is the time.Now() of Mon.Update,
\* "probe" the t of a probe
NewLoop(target) ==
    [pc |-> "wait", q |-> <<>>, closed |-> FALSE,
     status |-> [OK |-> target.Init, Initialised |-> FALSE],
     history |-> [n \in 1 .. Window |-> target.Init],
     c |-> target.Checks,
     was |-> [OK |-> FALSE, Initialised |-> FALSE],
     notified |-> Notify(<<>>, target.Init), When |-> "Update"]

\* the lowest slot of instance i that holds no goroutine (0: none)
FreeSlot(i) ==
    IF \E k \in Slots : loops[<<i, k>>].pc = "free"
    THEN CHOOSE k \in Slots :
            /\ loops[<<i, k>>].pc = "free"
            /\ \A j \in Slots : loops[<<i, j>>].pc = "free" => k <= j
    ELSE 0

Monitored == {i \in Instances : services[i] # 0}

\* a monitor that starts the Instance afresh on every Update
UpdateRestart(l, target) == NewLoop(target)

\* Mon.Update for an Instance that is already in m.services and in checks
UpdateExisting(l, target) == [l EXCEPT !.q = Append(@, target.Checks)]

\* a monitor that forgets to close the channel of a removed Instance
UpdateForgets(l) == l

\* Mon.Update for an Instance that is in m.services and not in checks
UpdateRemoved(l) == [l EXCEPT !.closed = TRUE]

\* a first loop of Update that deletes nothing from checks
UpdatedChecksKeepsAll(checks) == checks

\* the caller's map after the first loop of Mon.Update(checks):
\* delete(checks, instance) for every instance of m.services
UpdatedChecks(checks) ==
    [i \in {j \in DOMAIN checks : services[j] = 0} |-> checks[i]]

\* The loops after Mon.Update(checks): the second loop ranges over what the
\* first has left in checks
UpdatedLoops(checks) ==
    [id \in LoopIds |->
        LET i == id[1]
            k == id[2]
        IN  IF services[i] = k
            THEN IF i \in DOMAIN checks
                 THEN UpdateExisting(loops[id], checks[i])
                 ELSE UpdateRemoved(loops[id])
            ELSE IF i \in DOMAIN UpdatedChecks(checks) /\ FreeSlot(i) = k
                 THEN NewLoop(checks[i])
                 ELSE loops[id]]

\* m.services after Mon.Update(checks)
UpdatedServices(checks) ==
    [i \in Instances |->
        IF i \in DOMAIN UpdatedChecks(checks) THEN FreeSlot(i)
        ELSE IF i \in DOMAIN checks THEN services[i]
        ELSE 0]

\* the sends of Update do not block and every new loop finds a slot
CanUpdate(checks) ==
    \A i \in DOMAIN checks :
        IF services[i] # 0
        THEN Len(loops[<<i, services[i]>>].q) < Min(ChanCap, MaxPending)
        ELSE FreeSlot(i) # 0

\* Mon.Update(checks)
MonUpdate(checks) ==
    /\ CanUpdate(checks)
    /\ loops' = UpdatedLoops(checks)
    /\ services' = UpdatedServices(checks)
    /\ monC' = Signal(monC)

\* the probe loop's select takes case c, ok = <-C
LoopRecv(id) ==
    /\ loops[id].pc = "wait"
    /\ \/ /\ loops[id].q # <<>>
          /\ loops' = [loops EXCEPT ![id].c = Head(loops[id].q),
                                    ![id].q = Tail(loops[id].q)]
       \/ /\ loops[id].q = <<>>
          /\ loops[id].closed
          /\ loops' = [loops EXCEPT ![id] = FreeLoop]
    /\ UNCHANGED <<services, monC>>

\* the probe loop's select takes case <-ticker.C; was := state.status
LoopTick(id) ==
    /\ loops[id].pc = "wait"
    /\ loops' = [loops EXCEPT ![id].pc = "probe", ![id].was = loops[id].status]
    /\ UNCHANGED <<services, monC>>

\* copy(history[0:], history[1:]); history[4] = ok
Shift(history, ok) ==
    [n \in 1 .. Window |-> IF n < Window THEN history[n + 1] ELSE ok]

Passed(history) == Cardinality({n \in 1 .. Window : history[n]})

\* a loop that lets an UP instance fall only below 3 passes
HysteresisLax(wasOK, passed) ==
    IF wasOK
    THEN IF passed < 3 THEN FALSE ELSE wasOK
    ELSE IF passed > 4 THEN TRUE ELSE wasOK

\* a loop that lets a DOWN instance rise with 4 passes
HysteresisEager(wasOK, passed) ==
    IF wasOK
    THEN IF passed < 4 THEN FALSE ELSE wasOK
    ELSE IF passed > 3 THEN TRUE ELSE wasOK

\* now.OK, from was.OK and the number of passes in the window
Hysteresis(wasOK, passed) ==
    IF wasOK
    THEN IF passed < 4 THEN FALSE ELSE wasOK
    ELSE IF passed > 4 THEN TRUE ELSE wasOK

\* a test that looks at OK only
ChangedOK(was, nowOK) == was.OK # nowOK

\* if !was.Initialised || was.OK != now.OK
Changed(was, nowOK) == ~was.Initialised \/ was.OK # nowOK

\* a loop that notifies on every tick after the first
NotifyEveryTick(was, nowOK) == was.Initialised

\* if was.Initialised { m.notify(instance, now.OK) }, inside the changed branch
NotifyDue(was, nowOK) == Changed(was, nowOK) /\ was.Initialised

\* the probe loop from m.probes returning ok to the end of the iteration
LoopProbeDone(id, ok) ==
    /\ loops[id].pc = "probe"
    /\ LET l == loops[id]
           h == Shift(l.history, ok)
           nowOK == Hysteresis(l.was.OK, Passed(h))
       IN  /\ loops' = [loops EXCEPT ![id] =
                  [l EXCEPT !.pc = "wait",
                            !.history = h,
                            !.status = [OK |-> nowOK, Initialised |-> TRUE],
                            !.notified = IF NotifyDue(l.was, nowOK)
                                         THEN Notify(@, nowOK) ELSE @,
                            !.When = IF Changed(l.was, nowOK)
                                     THEN "probe" ELSE @]]
           /\ monC' = IF Changed(l.was, nowOK) THEN Signal(monC) ELSE monC
    /\ UNCHANGED services

\* a reader of Mon.C takes the buffered signal
TakeC ==
    /\ monC = 1
    /\ monC' = 0
    /\ UNCHANGED <<services, loops>>

(***************************************************************************)
(* cue.Director                                                            *)
(***************************************************************************)

\* the fields of cue.Service that make its tuple
TupleOf(s) == [Address |-> s.Address, Port |-> s.Port, Protocol |-> s.Protocol]

\* mon.Instance{Service: service, Destination: mon.Destination{d.Address, d.Port}}
InstanceOf(t, d) ==
    [Service |-> t, Destination |-> [Address |-> d.Address, Port |-> d.Port]]

\* cfg := map[tuple]Service{}; for _, s := range config { cfg[t] = s }
IndexCfg(config) ==
    LET idx == 1 .. Len(config)
        last(t) == CHOOSE n \in idx :
                      /\ TupleOf(config[n]) = t
                      /\ \A m \in idx : TupleOf(config[m]) = t => m <= n
    IN  [t \in {TupleOf(config[n]) : n \in idx} |-> config[last(t)]]

\* the error the validating loop of Configure finds in one service
ServiceError(s) ==
    IF s.Port = 0 THEN "Service port cannot be 0"
    ELSE IF s.Protocol # TCP /\ s.Protocol # UDP
         THEN "Only TCP and UDP protocols supported"
    ELSE IF \E n \in 1 .. Len(s.Destinations) : s.Destinations[n].Port = 0
         THEN "Destination port cannot be 0"
    ELSE "nil"

\* what Configure may return for the indexed list c: the error of the first
\* faulty service met in the order of the map, or nil if there is none
ConfigErrors(c) ==
    LET errs == {ServiceError(c[t]) : t \in DOMAIN c} \ {"nil"}
    IN  IF errs = {} THEN {"nil"} ELSE errs

\* a Director that starts UP whatever is added under a known VIP
InitPolicyKnownVip(prev, s) == s.Address \in {t.Address : t \in DOMAIN prev}

\* init := vips[s.Address] && !svcs[service], over the previous d.cfg
InitPolicy(prev, s) ==
    LET vips == {t.Address : t \in DOMAIN prev}
        svcs == DOMAIN prev
    IN  s.Address \in vips /\ TupleOf(s) \notin svcs

\* services := map[mon.Instance]mon.Target{} as Configure fills it
DirTargets(prev, c) ==
    LET at(t, n) == InstanceOf(t, c[t].Destinations[n])
        insts == UNION {{at(t, n) : n \in 1 .. Len(c[t].Destinations)} :
                        t \in DOMAIN c}
        last(i) == LET ds == c[i.Service].Destinations
                   IN  CHOOSE n \in 1 .. Len(ds) :
                          /\ at(i.Service, n) = i
                          /\ \A m \in 1 .. Len(ds) : at(i.Service, m) = i => m <= n
    IN  [i \in insts |->
            [Init |-> InitPolicy(prev, c[i.Service]),
             Checks |-> c[i.Service].Destinations[last(i)].Checks]]

\* Mon.Status(svc, dst): the zero Status when the Instance is not monitored
MonStatus(i) ==
    IF i \in Instances /\ services[i] # 0
    THEN loops[<<i, services[i]>>].status
    ELSE [OK |-> FALSE, Initialised |-> FALSE]

\* Destination.HealthyWeight
HealthyWeight(d) ==
    IF ~d.Disabled /\ d.Status.OK /\ d.Weight > 0 THEN 1 ELSE 0

\* the range of var available uint8
Uint8 == 256

\* the loop over s.Destinations in Director.services: available++ in 8 bits
\* for every healthy destination. The increments of the two halves of the
\* list are added in 8 bits, which keeps the recursion shallow
RECURSIVE Available(_)
Available(dests) ==
    IF dests = <<>> THEN 0
    ELSE IF Len(dests) = 1
         THEN (IF HealthyWeight(dests[1]) > 0 THEN 1 ELSE 0)
    ELSE LET n == Len(dests)
             h == n \div 2
         IN  (Available(SubSeq(dests, 1, h)) + Available(SubSeq(dests, h + 1, n)))
                 % Uint8

\* Service.Healthy
Healthy(available, required) == available >= required

\* the Instances of the destinations of the indexed list c
CfgInstances(c) ==
    UNION {{InstanceOf(t, c[t].Destinations[n]) : n \in 1 .. Len(c[t].Destinations)} :
           t \in DOMAIN c}

\* one round of the loop of Director.services for service s, the monitor's
\* answers given by the function st
ServiceStatus(s, st) ==
    LET t == TupleOf(s)
        dests == [n \in 1 .. Len(s.Destinations) |->
                    [Address |-> s.Destinations[n].Address,
                     Port |-> s.Destinations[n].Port,
                     Disabled |-> s.Destinations[n].Disabled,
                     Weight |-> s.Destinations[n].Weight,
                     Status |-> st[InstanceOf(t, s.Destinations[n])]]]
        available == Available(dests)
    IN  [Address |-> s.Address, Port |-> s.Port, Protocol |-> s.Protocol,
         Required |-> s.Required, Destinations |-> dests,
         available |-> available, Up |-> Healthy(available, s.Required)]

\* Service.less
Less(i, j) ==
    IF i.Address # j.Address THEN i.Address < j.Address
    ELSE IF i.Port # j.Port THEN i.Port < j.Port
    ELSE IF i.Protocol # j.Protocol THEN i.Protocol < j.Protocol
    ELSE FALSE

\* sort.SliceStable over a list whose tuples are all different
RECURSIVE SortTuples(_)
SortTuples(ts) ==
    IF ts = {} THEN <<>>
    ELSE LET first == CHOOSE t \in ts : \A u \in ts \ {t} : Less(t, u)
         IN  <<first>> \o SortTuples(ts \ {first})

\* Director.status: Director.services, sorted
DirStatus(c, st) ==
    LET order == SortTuples(DOMAIN c)
    IN  [n \in 1 .. Len(order) |-> ServiceStatus(c[order[n]], st)]

\* AllVIPs
AllVIPs(svcs) == {svcs[n].Address : n \in 1 .. Len(svcs)}

\* the map vips of HealthyVIPs after its first loop
RECURSIVE VipMap(_)
VipMap(svcs) ==
    IF svcs = <<>> THEN <<>>
    ELSE LET n == Len(svcs)
             m == VipMap(SubSeq(svcs, 1, n - 1))
             vip == svcs[n].Address
         IN  IF svcs[n].Up
             THEN IF vip \in DOMAIN m THEN m ELSE m @@ (vip :> TRUE)
             ELSE [v \in DOMAIN m \cup {vip} |-> IF v = vip THEN FALSE ELSE m[v]]

\* a HealthyVIPs in which the last service of a VIP decides
HealthyVIPsLastWins(svcs) ==
    {svcs[n].Address : n \in {k \in 1 .. Len(svcs) :
        /\ svcs[k].Up
        /\ \A j \in 1 .. Len(svcs) : svcs[j].Address = svcs[k].Address => j <= k}}

\* HealthyVIPs
HealthyVIPs(svcs) == {ip \in DOMAIN VipMap(svcs) : VipMap(svcs)[ip]}

\* Director.C <- true, unless full
Inform(ch) == 1

\* a Configure that stores the indexed list before it validates it
ConfigureStoresFirst(config, e) ==
    LET c == IndexCfg(config)
    IN  /\ err' = e
        /\ e \in ConfigErrors(c)
        /\ cfg' = c
        /\ IF e # "nil"
           THEN UNCHANGED <<services, loops, monC, dirC, balanced>>
           ELSE /\ MonUpdate(DirTargets(cfg, c))
                /\ balanced' = DirStatus(c, [i \in CfgInstances(c) |->
                       IF i \in Instances /\ services'[i] # 0
                       THEN loops'[<<i, services'[i]>>].status
                       ELSE [OK |-> FALSE, Initialised |-> FALSE]])
                /\ dirC' = Inform(dirC)

\* Director.Configure(config) returning e. A faulty list returns before
\* anything is written; otherwise d.cfg = cfg, d.mon.Update(services) and
\* d.update(), which reads the monitor as Update left it
Configure(config, e) ==
    LET c == IndexCfg(config)
    IN  /\ err' = e
        /\ e \in ConfigErrors(c)
        /\ IF e # "nil"
           THEN UNCHANGED <<services, loops, monC, cfg, dirC, balanced>>
           ELSE /\ cfg' = c
                /\ MonUpdate(DirTargets(cfg, c))
                /\ balanced' = DirStatus(c, [i \in CfgInstances(c) |->
                       IF i \in Instances /\ services'[i] # 0
                       THEN loops'[<<i, services'[i]>>].status
                       ELSE [OK |-> FALSE, Initialised |-> FALSE]])
                /\ dirC' = Inform(dirC)

\* Director.Start(config): mon.New (whose Update(nil) signals Mon.C), then
\* Configure and go d.background(), or d.mon.Update(nil) if Configure failed
DirStart(config, e) ==
    /\ bg = "off"
    /\ err = "none"
    /\ IF e = "nil"
       THEN Configure(config, e)
       ELSE /\ e \in ConfigErrors(IndexCfg(config))
            /\ err' = e
            /\ monC' = Signal(monC)
            /\ UNCHANGED <<services, loops, cfg, dirC, balanced>>
    /\ bg' = IF e = "nil" THEN "run" ELSE "off"
    /\ UNCHANGED die

\* Director.Configure(config), called by the user of a started Director
DirConfigure(config, e) ==
    /\ bg = "run"
    /\ ~die
    /\ Configure(config, e)
    /\ UNCHANGED <<bg, die>>

\* Director.Stop
DirStop ==
    /\ bg = "run"
    /\ ~die
    /\ die' = TRUE
    /\ UNCHANGED <<services, loops, monC, cfg, err, bg, dirC, balanced>>

\* Director.update
DirUpdate ==
    /\ balanced' = DirStatus(cfg, [i \in CfgInstances(cfg) |-> MonStatus(i)])
    /\ dirC' = Inform(dirC)

\* Director.Trigger
DirTrigger ==
    /\ bg = "run"
    /\ DirUpdate
    /\ UNCHANGED <<services, loops, monC, cfg, err, bg, die>>

\* Director.background: case <-d.mon.C
BgWake ==
    /\ bg = "run"
    /\ monC = 1
    /\ monC' = 0
    /\ DirUpdate
    /\ UNCHANGED <<services, loops, cfg, err, bg, die>>

\* Director.background: case <-d.die, up to the return of d.Configure(nil)
BgDie ==
    /\ bg = "run"
    /\ die
    /\ Configure(<<>>, "nil")
    /\ bg' = "dying"
    /\ UNCHANGED die

\* Director.background: d.mon.Update(nil); d.inform(); return
BgExit ==
    /\ bg = "dying"
    /\ MonUpdate(<<>>)
    /\ dirC' = Inform(dirC)
    /\ bg' = "done"
    /\ UNCHANGED <<cfg, err, die, balanced>>

\* a reader of Director.C takes the buffered signal
TakeDirC ==
    /\ dirC = 1
    /\ dirC' = 0
    /\ UNCHANGED <<services, loops, monC, cfg, err, bg, die, balanced>>

(***************************************************************************)
(* bgp: addresses, Parameters, the filter, the NLRI and the UPDATE bodies  *)
(***************************************************************************)

\* addresses of each family in the model
MaxAddr == 2

\* addresses in a list given to Parameters.filter on its own
MaxRibLen == 3

\* an UPDATE body of this length or more is split
MaxBody == 4000

\* netip.Addr: an IPv4 or an IPv6 address
Addr4 == [fam : {4}, ip : 1 .. MaxAddr]

Addr6 == [fam : {6}, ip : 1 .. MaxAddr]

Addrs == Addr4 \cup Addr6

Is4(a) == a.fam = 4

Is6(a) == a.fam = 6

\* netip.Addr.As4: the 4 bytes of an IPv4 address (type IP)
As4(a) == a.ip

\* netip.AddrFrom4
AddrFrom4(i) == [fam |-> 4, ip |-> i]

\* netip.Prefix, as the set of the addresses it contains: an IPv4 host
\* route, the IPv4 prefix holding every IPv4 address, an IPv6 host route
Prefixes ==
    {{AddrFrom4(1)}, Addr4, {[fam |-> 6, ip |-> 1]}}

\* netip.Prefix.Contains
Contains(n, ip) == ip \in n

\* the zero value of IP4
Nul4 == <<0, 0, 0, 0>>

\* the zero value of Parameters; Communities is the length of the list, an
\* IP6 is a number (0: the zero value)
ZeroParameters ==
    [ASNumber |-> 0, HoldTime |-> 0, SourceIP |-> Nul4, NextHop4 |-> Nul4,
     NextHop6 |-> 0,
     Multiprotocol |-> FALSE, LocalPref |-> 0, MED |-> 0, Communities |-> 0,
     Accept |-> {}, Reject |-> {}]

\* the elements of a list
Range(f) == {f[n] : n \in DOMAIN f}

\* a filter in which a Reject prefix wins over an Accept prefix
FilterRejectWins(p, ipv6, dest) ==
    LET pass(i) ==
            /\ p.Multiprotocol \/ ~((Is6(i) /\ ~ipv6) \/ (Is4(i) /\ ipv6))
            /\ ~\E n \in p.Reject : Contains(n, i)
    IN  SelectSeq(dest, pass)

\* Parameters.filter
Filter(p, ipv6, dest) ==
    LET pass(i) ==
            IF ~p.Multiprotocol /\ ((Is6(i) /\ ~ipv6) \/ (Is4(i) /\ ipv6))
            THEN FALSE
            ELSE IF \E n \in p.Accept : Contains(n, i) THEN TRUE
            ELSE IF \E n \in p.Reject : Contains(n, i) THEN FALSE
            ELSE TRUE
    IN  SelectSeq(dest, pass)

\* newupdate(p, r): an _update with a copy of r
NewUpdate(p, r) == [RIB |-> r, Parameters |-> p]

\* Parameters.Diff: LocalPref, MED or Communities differ
Diff(p, q) ==
    \/ p.LocalPref # q.LocalPref
    \/ p.MED # q.MED
    \/ p.Communities # q.Communities

\* an nlri that advertises the whole list, forced or not
NlriAlwaysForce(u, prev, ipv6, force) ==
    LET new == Range(Filter(u.Parameters, ipv6, u.RIB))
    IN  [list |-> new, nlri |-> [i \in prev \cup new |-> i \in new]]

\* an nlri that advertises only what is new, forced or not
NlriNoForce(u, prev, ipv6, force) ==
    LET new == Range(Filter(u.Parameters, ipv6, u.RIB))
    IN  [list |-> new,
         nlri |-> [i \in (prev \ new) \cup (new \ prev) |-> i \in new]]

\* _update.nlri(prev, ipv6, force): the list (which has the keys of the map
\* new, in the map's order: it is kept as a set) and the NLRI map
Nlri(u, prev, ipv6, force) ==
    LET new == Range(Filter(u.Parameters, ipv6, u.RIB))
        old == prev
    IN  [list |-> new,
         nlri |-> [i \in (old \ new) \cup {j \in new : j \notin old \/ force} |->
                      i \in new]]

\* update.withParameters(p) of the template u
WithParameters(u, p) ==
    [u EXCEPT !.Communities = p.Communities, !.LocalPref = p.LocalPref,
              !.MED = p.MED]

\* an attribute of n bytes with its 3 or 4 bytes of header
Attr(n) == IF n > 255 THEN 4 + n ELSE 3 + n

\* len(update.message(m)): 2 + withdrawn + 2 + path attributes + advertise
MessageLen(u, m) ==
    LET w4 == Cardinality({k \in DOMAIN m : Is4(k) /\ ~m[k]})
        a4 == Cardinality({k \in DOMAIN m : Is4(k) /\ m[k]})
        w6 == Cardinality({k \in DOMAIN m : Is6(k) /\ ~m[k]})
        a6 == Cardinality({k \in DOMAIN m : Is6(k) /\ m[k]})
        attrs ==
            4 + (IF u.External THEN 7 ELSE 3) + 7
            + (IF ~u.External /\ u.LocalPref > 0 THEN 7 ELSE 0)
            + (IF u.Communities > 0 THEN Attr(4 * u.Communities) ELSE 0)
            + (IF u.MED > 0 THEN 7 ELSE 0)
            + (IF a6 > 0 THEN Attr(3 + 1 + 16 + 1 + 17 * a6) ELSE 0)
            + (IF w6 > 0 THEN Attr(3 + 17 * w6) ELSE 0)
    IN  2 + 5 * w4
        + (IF a4 > 0 \/ a6 > 0 \/ w6 > 0 THEN 2 + attrs + 5 * a4 ELSE 2)

\* update.message(m): the length of the body and the prefixes it carries
Message(u, m) ==
    [len |-> MessageLen(u, m),
     withdrawn |-> {k \in DOMAIN m : Is4(k) /\ ~m[k]},
     advertise |-> {k \in DOMAIN m : Is4(k) /\ m[k]},
     withdrawn6 |-> {k \in DOMAIN m : Is6(k) /\ ~m[k]},
     advertise6 |-> {k \in DOMAIN m : Is6(k) /\ m[k]}]

\* the map m on the keys ks
Restrict(m, ks) == [k \in ks |-> m[k]]

\* a split that leaves one address out of the second half
HalvesDropOne(m) ==
    {<<Restrict(m, ks), Restrict(m, (DOMAIN m \ ks) \ {k})>> :
        ks \in {x \in SUBSET DOMAIN m : Cardinality(x) = Cardinality(DOMAIN m) \div 2},
        k \in DOMAIN m}

\* the two maps m1 and m2 update.updates splits m into: the first len(m)/2
\* keys in the order of the map, which is any order, and the others
Halves(m) ==
    {<<Restrict(m, ks), Restrict(m, DOMAIN m \ ks)>> :
        ks \in {x \in SUBSET DOMAIN m : Cardinality(x) = Cardinality(DOMAIN m) \div 2}}

\* an updates that returns the bodies of the first half when the second
\* half does not fit
RECURSIVE UpdatesKeepFitting(_, _)
UpdatesKeepFitting(u, m) ==
    IF Cardinality(DOMAIN m) < 1 THEN {<<>>}
    ELSE IF MessageLen(u, m) < MaxBody THEN {<<Message(u, m)>>}
    ELSE IF Cardinality(DOMAIN m) = 1 THEN {<<>>}
    ELSE UNION {UNION {IF Len(r1) < 1 THEN {<<>>}
                       ELSE {r1 \o r2 : r2 \in UpdatesKeepFitting(u, h[2])} :
                          r1 \in UpdatesKeepFitting(u, h[1])} :
                   h \in Halves(m)}

\* update.updates(m): the lists of bodies it may return (<<>>: nil)
RECURSIVE Updates(_, _)
Updates(u, m) ==
    IF Cardinality(DOMAIN m) < 1 THEN {<<>>}
    ELSE IF MessageLen(u, m) < MaxBody THEN {<<Message(u, m)>>}
    ELSE IF Cardinality(DOMAIN m) = 1 THEN {<<>>}
    ELSE UNION {UNION {IF Len(r1) < 1 THEN {<<>>}
                       ELSE {IF Len(r2) < 1 THEN <<>> ELSE r1 \o r2 :
                                r2 \in Updates(u, h[2])} :
                          r1 \in Updates(u, h[1])} :
                   h \in Halves(m)}

\* the path attributes update.message(m) puts in the body, in their order,
\* each with the name of its type code and its value; none when m has
\* nothing but IPv4 withdrawals
PathAttributes(u, m) ==
    LET a4 == {k \in DOMAIN m : Is4(k) /\ m[k]}
        a6 == {k \in DOMAIN m : Is6(k) /\ m[k]}
        w6 == {k \in DOMAIN m : Is6(k) /\ ~m[k]}
    IN  IF a4 = {} /\ a6 = {} /\ w6 = {} THEN <<>>
        ELSE <<[type |-> "ORIGIN", value |-> <<"IGP">>],
               [type |-> "AS_PATH",
                value |-> IF u.External THEN <<"AS_SEQUENCE", 1, u.ASNumber>>
                          ELSE <<>>],
               [type |-> "NEXT_HOP", value |-> <<u.NextHop>>]>>
             \o (IF ~u.External /\ u.LocalPref > 0
                 THEN <<[type |-> "LOCAL_PREF", value |-> <<u.LocalPref>>]>>
                 ELSE <<>>)
             \o (IF u.Communities > 0
                 THEN <<[type |-> "COMMUNITIES", value |-> <<u.Communities>>]>>
                 ELSE <<>>)
             \o (IF u.MED > 0
                 THEN <<[type |-> "MULTI_EXIT_DISC", value |-> <<u.MED>>]>>
                 ELSE <<>>)
             \o (IF a6 # {}
                 THEN <<[type |-> "MP_REACH_NLRI",
                         value |-> [afi |-> 2, safi |-> 1, nhlen |-> 16,
                                    nexthop |-> u.NextHop6, snpas |-> 0,
                                    nlri |-> {<<128, k>> : k \in a6}]]>>
                 ELSE <<>>)
             \o (IF w6 # {}
                 THEN <<[type |-> "MP_UNREACH_NLRI",
                         value |-> [afi |-> 2, safi |-> 1,
                                    nlri |-> {<<128, k>> : k \in w6}]]>>
                 ELSE <<>>)

\* the IPv4 NLRI at the end of the body of update.message(m)
Nlri4(u, m) == {<<32, k>> : k \in {j \in DOMAIN m : Is4(j) /\ m[j]}}

\* the update template of try: a struct built before the select loop from
\* the locals of try as they are at that point
UpdateTemplate(ipv6, asnumber, external, nexthop4, nexthop6, multiprotocol) ==
    [IPv6 |-> ipv6, ASNumber |-> asnumber, External |-> external,
     NextHop |-> nexthop4, NextHop6 |-> nexthop6,
     Multiprotocol |-> multiprotocol,
     LocalPref |-> 0, MED |-> 0, Communities |-> 0]

\* try from its start to the UPDATE of the map m it queues after the OPEN
\* o of the peer: var external bool; the template; on the OPEN
\* external = o.asNumber != asnumber; u := updateTemplate.withParameters(p)
TryUpdateOf(p, o, m) ==
    LET declared == FALSE
        updateTemplate ==
            UpdateTemplate(FALSE, p.ASNumber, declared, p.NextHop4,
                           p.NextHop6, p.Multiprotocol)
        external == o.asNumber # p.ASNumber
        u == WithParameters(updateTemplate, p)
    IN  [attributes |-> PathAttributes(u, m), nlri |-> Nlri4(u, m)]

\* Capabilities Optional Parameter (Parameter Type 2)
CAPABILITIES_OPTIONAL_PARAMETER == 2

\* Multiprotocol Extensions for BGP-4
BGP4_MP == 1

\* htons: the two bytes of a uint16, the high one first
Htons(h) == <<(h \div 256) % 256, h % 256>>

\* open.message: the body of the OPEN, a list of bytes
OpenMessage(o) ==
    LET as == Htons(o.asNumber)
        ht == Htons(o.holdTime)
        id == o.routerID
        mp_ipv4 == <<BGP4_MP, 4, 0, 1, 0, 1>>
        mp_ipv6 == <<BGP4_MP, 4, 0, 2, 0, 1>>
        param_ipv4 == <<CAPABILITIES_OPTIONAL_PARAMETER, Len(mp_ipv4)>> \o mp_ipv4
        param_ipv6 == <<CAPABILITIES_OPTIONAL_PARAMETER, Len(mp_ipv6)>> \o mp_ipv6
        params == IF o.multiprotocol THEN param_ipv6 \o param_ipv4 ELSE <<>>
    IN  <<4, as[1], as[2], ht[1], ht[2], id[1], id[2], id[3], id[4]>>
        \o <<Len(params)>> \o params

\* the open that a var o open declares
ZeroOpen ==
    [asNumber |-> 0, holdTime |-> 0, routerID |-> <<0, 0, 0, 0>>,
     multiprotocol |-> FALSE, version |-> 0, op |-> <<>>]

\* open.parse(d) on a var o open, as the reader of a connection calls it:
\* the open it leaves (the zero open if d has less than 10 bytes)
OpenParse(d) ==
    IF Len(d) < 10 THEN ZeroOpen
    ELSE [ZeroOpen EXCEPT !.version = d[1],
                          !.asNumber = d[2] * 256 + d[3],
                          !.holdTime = d[4] * 256 + d[5],
                          !.routerID = SubSeq(d, 6, 9),
                          !.op = SubSeq(d, 11, Len(d))]

\* the length of a message on the wire: 19 bytes of header and the body
Framed(body) == 19 + Len(body)

(***************************************************************************)
(* bgp.Session and bgp.Pool                                                *)
(***************************************************************************)

\* Sessions the model lets the pool start for one peer, one after the other
MaxSessions == 2

\* _updates the model lets wait in the channel of a Session
MaxQueued == 2

Peers == {1, 2}

SessSlots == 1 .. MaxSessions

SessIds == Peers \X SessSlots

\* a message of the type t that is not an OPEN
Msg(t) == [type |-> t, version |-> 0, holdTime |-> 0, routerID |-> <<0, 0, 0, 0>>]

\* no message
NoMsg == Msg("none")

\* the NLRI map with no address
NoNlri == [i \in {} |-> FALSE]

\* the routerid the pool gives its Sessions
Routerid == <<10, 0, 0, 1>>

\* what conn.local() returns on a connection over IPv4 and over IPv6
LocalAddrs == [v4 |-> <<10, 0, 0, 9>>, v6 |-> 9]

\* the locals of try outside try
NoLocals ==
    [asnumber |-> 0, holdtime |-> 0, sourceip |-> Nul4, localip |-> Nul4,
     local6 |-> 0, nexthop4 |-> Nul4, nexthop6 |-> 0, multiprotocol |-> FALSE]

\* the first lines of try: the locals it reads from s.update.Parameters
TryLocals(p) ==
    [asnumber |-> p.ASNumber,
     holdtime |-> IF p.HoldTime < 3 THEN 10 ELSE p.HoldTime,
     sourceip |-> p.SourceIP, localip |-> p.SourceIP, local6 |-> 0,
     nexthop4 |-> p.NextHop4, nexthop6 |-> p.NextHop6,
     multiprotocol |-> p.Multiprotocol]

\* loc, ok := conn.local() and the copy into localip or local6
LocalOf(l, how) ==
    IF how = "v6" THEN [l EXCEPT !.local6 = LocalAddrs.v6]
    ELSE [l EXCEPT !.localip = LocalAddrs.v4]

\* the next hops try settles after it has queued its OPEN
NextHops(l) ==
    LET n4 == IF l.nexthop4 = Nul4 THEN l.localip ELSE l.nexthop4
    IN  [l EXCEPT !.nexthop4 = IF n4 = Nul4 THEN Routerid ELSE n4,
                  !.nexthop6 = IF l.nexthop6 = 0 THEN l.local6 ELSE l.nexthop6]

\* the local u of try outside try
NoTemplate ==
    WithParameters(UpdateTemplate(FALSE, 0, FALSE, Nul4, 0, FALSE), ZeroParameters)

\* a Session that has not been made: pc is where its goroutine stands
\* ("free", "wait" in the select of session, "dial" in newConnection, "try"
\* in the select of try, "done"), c and closed are the channel, conn is
\* the TCP connection of try being open, ipv6, adjRIBOut and parameters are
\* locals of try, prev and force are what try gave nlri last, nlri and
\* queued are the NLRI map it got and the UPDATEs it gave conn.queue for it,
\* rx is the message the reader of the connection offers on conn.C, sent
\* the messages try has given conn.queue in this attempt, hold the
\* hold_timer of try: "reset" when it has just been set, "due" once its time
\* has passed, locals the locals try reads from s.update.Parameters at its
\* start, u the update it made last from its template
FreeSession ==
    [pc |-> "free", c |-> <<>>, closed |-> FALSE,
     p |-> ZeroParameters, rib |-> <<>>,
     update |-> NewUpdate(ZeroParameters, <<>>),
     State |-> "IDLE", LastError |-> "",
     conn |-> FALSE, ipv6 |-> FALSE, adjRIBOut |-> {},
     parameters |-> ZeroParameters, prev |-> {}, force |-> FALSE,
     nlri |-> NoNlri, queued |-> <<>>, rx |-> NoMsg, sent |-> {},
     hold |-> "reset", locals |-> NoLocals, u |-> NoTemplate]

\* PDUs the model lets a caller give conn.queue on one connection
MaxQueue == 3

\* no connection: newConnection has not been called. out is c.out, pending
\* the number of values in the channel pending (capacity 1), closed tells
\* that c.closed is closed, tcp is the state of c.conn, writer and reader
\* are where the two goroutines stand (writer: "select", "shift" in the
\* loop of drain, "write" in c.conn.Write, "done"; reader: "read" in
\* io.ReadFull, "offer" in its select, "done"), final tells that the drain
\* is the one of case <-c.closed or <-c.reader_exit, m is the PDU shift gave
\* the writer, failed tells that a Write has returned an error, closes
\* counts the calls of close(c.C), written is what c.conn.Write has put on
\* the socket, queued what conn.queue has been given, taken the number of
\* _updates the caller has taken from its channel
NoConnection ==
    [out |-> <<>>, pending |-> 0, closed |-> FALSE, tcp |-> "none",
     writer |-> "none", final |-> FALSE, m |-> <<>>, failed |-> FALSE,
     reader |-> "none", closes |-> 0, written |-> <<>>, queued |-> <<>>,
     taken |-> 0]

\* the methods of Pool that send on a channel of the pool's task
PoolCalls == {"Status", "Configure", "RIB"}

\* the pool's task in its select with no caller on its channels: pc is where
\* the task stands ("select", "rib" in the loop of case <-pool.r,
\* "configure" in the first loop of case <-pool.c), msg the map it took from
\* pool.c, todo the peers its loop has yet to visit, in the order of the
\* range, and calls[f] tells whether a caller of f waits on its channel
IdlePool ==
    [pc |-> "select", msg |-> <<>>, todo |-> <<>>,
     calls |-> [f \in PoolCalls |-> "idle"]]

\* no pool: the state of the bgp package when it is not used
NoPool ==
    /\ sessions = [peer \in Peers |-> 0]
    /\ poolRib = <<>>
    /\ pool = IdlePool
    /\ connection = NoConnection
    /\ sess = [id \in SessIds |-> FreeSession]

\* toaddr
ToAddr(in) == [n \in DOMAIN in |-> AddrFrom4(in[n])]

\* NewSession(routerid, peer, p, r, log): the Session and its goroutine
NewSession(p, r) ==
    [FreeSession EXCEPT !.pc = "wait", !.p = p, !.rib = ToAddr(r),
                        !.update = NewUpdate(p, ToAddr(r))]

\* Session.RIB(r)
SessionRIB(s, r) ==
    [s EXCEPT !.rib = ToAddr(r), !.c = Append(@, NewUpdate(s.p, ToAddr(r)))]

\* Session.Configure(p)
SessionConfigure(s, p) ==
    [s EXCEPT !.p = p, !.c = Append(@, NewUpdate(p, s.rib))]

\* Session.Close()
SessionClose(s) == [s EXCEPT !.closed = TRUE]

\* a return of try that leaves Status.LastError as it was
ReturnKeepsError(s, e) ==
    [s EXCEPT !.pc = "wait", !.State = "IDLE", !.conn = FALSE,
              !.adjRIBOut = {}, !.parameters = ZeroParameters,
              !.locals = NoLocals, !.u = NoTemplate]

\* a return of try with the error e, back in the loop of session: the
\* deferred conn.close(), s.error(e), s.idle(), timer.Reset(retry_time)
Return(s, e) ==
    [s EXCEPT !.pc = "wait", !.LastError = e, !.State = "IDLE",
              !.conn = FALSE, !.adjRIBOut = {}, !.parameters = ZeroParameters,
              !.locals = NoLocals, !.u = NoTemplate]

\* the update template of try with the Parameters p
Template(p) ==
    WithParameters([External |-> FALSE, LocalPref |-> 0, MED |-> 0,
                    Communities |-> 0], p)

\* a try that builds its template from the Parameters at hand
TemplateOfNew(s, p) ==
    WithParameters(UpdateTemplate(s.ipv6, p.ASNumber, FALSE, p.NextHop4,
                                  p.NextHop6, p.Multiprotocol), p)

\* updateTemplate.withParameters(p) in try: the template is built before
\* the select loop from the locals of try
TemplateOf(s, p) ==
    WithParameters(UpdateTemplate(s.ipv6, s.locals.asnumber, FALSE,
                                  s.locals.nexthop4, s.locals.nexthop6,
                                  s.locals.multiprotocol), p)

\* try with the _update r at hand, ESTABLISHED: the NLRI against prev, then
\* the UPDATEs queued or CEASE; the Sessions it may leave
Advertise(s, r, prev, force) ==
    LET n == Nlri(r, prev, s.ipv6, force)
        t == [s EXCEPT !.adjRIBOut = n.list, !.parameters = r.Parameters,
                       !.prev = prev, !.force = force,
                       !.nlri = n.nlri, !.queued = <<>>,
                       !.u = TemplateOf(s, r.Parameters)]
    IN  IF Cardinality(DOMAIN n.nlri) > 0
        THEN {IF Len(us) < 1 THEN Return(t, "Sent notification: CEASE, OUT_OF_RESOURCES")
              ELSE [t EXCEPT !.queued = us] :
                 us \in Updates(TemplateOf(s, r.Parameters), n.nlri)}
        ELSE {t}

\* the select of session takes an _update from the channel and stores it
SessStore(id) ==
    /\ sess[id].pc = "wait"
    /\ sess[id].c # <<>>
    /\ sess' = [sess EXCEPT ![id].update = Head(sess[id].c),
                            ![id].c = Tail(sess[id].c)]
    /\ UNCHANGED <<monVars, dirVars, funVars, connection, pool, sessions, poolRib>>

\* the select of session finds the channel closed: the goroutine returns,
\* and nothing refers to the Session any more
SessExit(id) ==
    /\ sess[id].pc = "wait"
    /\ sess[id].c = <<>>
    /\ sess[id].closed
    /\ sess' = [sess EXCEPT ![id] = [FreeSession EXCEPT !.pc = "done",
                                                        !.closed = TRUE]]
    /\ UNCHANGED <<monVars, dirVars, funVars, connection, pool, sessions, poolRib>>

\* the select of session takes the timer: try is called, up to s.active,
\* with its locals new
SessTimer(id) ==
    /\ sess[id].pc = "wait"
    /\ sess' = [sess EXCEPT ![id].pc = "dial", ![id].State = "ACTIVE",
                            ![id].locals = TryLocals(sess[id].update.Parameters),
                            ![id].prev = {}, ![id].force = FALSE,
                            ![id].nlri = NoNlri, ![id].queued = <<>>,
                            ![id].rx = NoMsg, ![id].sent = {}]
    /\ UNCHANGED <<monVars, dirVars, funVars, connection, pool, sessions, poolRib>>

\* newConnection returns: an error, a connection with no usable local
\* address, or a connection over IPv4 or IPv6 on which OPEN is queued
SessConnect(id, how) ==
    /\ sess[id].pc = "dial"
    /\ sess' =
        [sess EXCEPT ![id] =
            CASE how = "fail" -> Return(@, "CONNECTION_FAILED")
              [] how = "nolocal" -> Return(@, "INVALID_LOCALIP")
              [] OTHER -> [@ EXCEPT !.pc = "try", !.conn = TRUE,
                                    !.ipv6 = (how = "v6"),
                                    !.locals = NextHops(LocalOf(@, how)),
                                    !.State = "OPEN_SENT"]]
    /\ UNCHANGED <<monVars, dirVars, funVars, connection, pool, sessions, poolRib>>

\* what conn.C may give try
Messages ==
    {"closed", "NOTIFICATION", "KEEPALIVE", "OPEN", "BAD_OPEN", "UPDATE", "OTHER"}

\* the select of try takes m from conn.C
TryMessage(id, m) ==
    LET s == sess[id]
    IN  /\ s.pc = "try"
        /\ \E t \in
              CASE m = "closed" -> {Return(s, "REMOTE_SHUTDOWN")}
                [] m = "NOTIFICATION" -> {Return(s, "Received notification")}
                [] m = "KEEPALIVE" ->
                      IF s.State = "OPEN_SENT"
                      THEN {Return(s, "Sent notification: FSM_ERROR")}
                      ELSE {s}
                [] m = "OPEN" ->
                      IF s.State # "OPEN_SENT"
                      THEN {Return(s, "Sent notification: FSM_ERROR")}
                      ELSE Advertise([s EXCEPT !.State = "ESTABLISHED",
                                               !.LastError = ""],
                                     s.update, {}, FALSE)
                [] m = "BAD_OPEN" ->
                      IF s.State # "OPEN_SENT"
                      THEN {Return(s, "Sent notification: FSM_ERROR")}
                      ELSE {Return(s, "Sent notification: OPEN_MESSAGE_ERROR")}
                [] m = "UPDATE" ->
                      IF s.State # "ESTABLISHED"
                      THEN {Return(s, "Sent notification: FSM_ERROR")}
                      ELSE {s}
                [] OTHER -> {Return(s, "Sent notification: MESSAGE_HEADER_ERROR")} :
              sess' = [sess EXCEPT ![id] = t]
        /\ UNCHANGED <<monVars, dirVars, funVars, connection, pool, sessions, poolRib>>

\* the select of try takes the channel updates: closed, or an _update
TryUpdate(id) ==
    LET s == sess[id]
    IN  /\ s.pc = "try"
        /\ IF s.c = <<>>
           THEN /\ s.closed
                /\ sess' = [sess EXCEPT ![id] =
                              Return(s, "Sent notification: CEASE, ADMINISTRATIVE_SHUTDOWN")]
           ELSE LET r == Head(s.c)
                    u == [s EXCEPT !.c = Tail(s.c)]
                IN  \E t \in (IF s.State = "ESTABLISHED"
                              THEN Advertise(u, r, s.adjRIBOut,
                                             Diff(s.parameters, r.Parameters))
                              ELSE {u}) :
                        sess' = [sess EXCEPT ![id] =
                                    IF t.pc = "try" THEN [t EXCEPT !.update = r]
                                    ELSE t]
        /\ UNCHANGED <<monVars, dirVars, funVars, connection, pool, sessions, poolRib>>

\* the select of try takes the hold timer
TryHold(id) ==
    /\ sess[id].pc = "try"
    /\ sess' = [sess EXCEPT ![id] =
                  Return(@, "Sent notification: HOLD_TIMER_EXPIRED")]
    /\ UNCHANGED <<monVars, dirVars, funVars, connection, pool, sessions, poolRib>>

\* the slot a new Session of peer takes: the first that has not been used
FreeSessSlot(peer) ==
    IF \E k \in SessSlots : sess[<<peer, k>>].pc = "free"
    THEN CHOOSE k \in SessSlots :
            /\ sess[<<peer, k>>].pc = "free"
            /\ \A j \in 1 .. k - 1 : sess[<<peer, j>>].pc # "free"
    ELSE 0

\* Pool.RIB(r): the IPv4 addresses of r, as IPs
PoolRIBList(r) ==
    LET f == SelectSeq(r, Is4)
    IN  [n \in DOMAIN f |-> As4(f[n])]

\* Pool.RIB(r) and the case <-pool.r of the pool's task
PoolRIB(r) ==
    /\ \A peer \in Peers :
          sessions[peer] # 0 => Len(sess[<<peer, sessions[peer]>>].c) < MaxQueued
    /\ poolRib' = PoolRIBList(r)
    /\ sess' = [id \in SessIds |->
                  IF sessions[id[1]] = id[2] THEN SessionRIB(sess[id], poolRib')
                  ELSE sess[id]]
    /\ UNCHANGED <<monVars, dirVars, funVars, connection, pool, sessions>>

\* Pool.Configure(m) whose task takes the Sessions of the peers m leaves
\* out from its map and does not close them
PoolConfigureUnclosed(m) ==
    /\ \A peer \in DOMAIN m :
          IF sessions[peer] # 0
          THEN Len(sess[<<peer, sessions[peer]>>].c) < MaxQueued
          ELSE FreeSessSlot(peer) # 0
    /\ sessions' = [peer \in Peers |->
                      IF peer \notin DOMAIN m THEN 0
                      ELSE IF sessions[peer] = 0 THEN FreeSessSlot(peer)
                      ELSE sessions[peer]]
    /\ sess' = [id \in SessIds |->
                  IF id[1] \in DOMAIN m /\ sessions[id[1]] = id[2]
                  THEN SessionConfigure(sess[id], m[id[1]])
                  ELSE IF id[1] \in DOMAIN m /\ sessions[id[1]] = 0
                          /\ FreeSessSlot(id[1]) = id[2]
                  THEN NewSession(m[id[1]], poolRib)
                  ELSE sess[id]]
    /\ UNCHANGED <<monVars, dirVars, funVars, connection, pool, poolRib>>

\* Pool.Configure(m) and the case <-pool.c of the pool's task; m is a
\* function from the peers it names to their Parameters
PoolConfigure(m) ==
    /\ \A peer \in DOMAIN m :
          IF sessions[peer] # 0
          THEN Len(sess[<<peer, sessions[peer]>>].c) < MaxQueued
          ELSE FreeSessSlot(peer) # 0
    /\ sessions' = [peer \in Peers |->
                      IF peer \notin DOMAIN m THEN 0
                      ELSE IF sessions[peer] = 0 THEN FreeSessSlot(peer)
                      ELSE sessions[peer]]
    /\ sess' = [id \in SessIds |->
                  IF id[1] \in DOMAIN m /\ sessions[id[1]] = id[2]
                  THEN SessionConfigure(sess[id], m[id[1]])
                  ELSE IF id[1] \in DOMAIN m /\ sessions[id[1]] = 0
                          /\ FreeSessSlot(id[1]) = id[2]
                  THEN NewSession(m[id[1]], poolRib)
                  ELSE IF id[1] \notin DOMAIN m /\ sessions[id[1]] = id[2]
                  THEN SessionClose(sess[id])
                  ELSE sess[id]]
    /\ UNCHANGED <<monVars, dirVars, funVars, connection, pool, poolRib>>

\* the orders in which a range over a map with the keys S may visit them
Orders(S) == {o \in [1 .. Cardinality(S) -> S] : Range(o) = S}

\* a caller of Pool.Status, Pool.Configure or Pool.RIB reaches the send on
\* the channel of the pool's task
PoolCall(f) ==
    /\ pool.calls[f] = "idle"
    /\ pool' = [pool EXCEPT !.calls[f] = "blocked"]
    /\ UNCHANGED <<monVars, dirVars, funVars, connection, sessions, poolRib, sess>>

\* a pool's task that takes the chan status from pool.s and sends nothing
\* on it
TaskStatusSilent ==
    /\ pool.pc = "select"
    /\ pool.calls["Status"] = "blocked"
    /\ pool' = [pool EXCEPT !.calls["Status"] = "taken"]
    /\ UNCHANGED <<monVars, dirVars, funVars, connection, sessions, poolRib, sess>>

\* the pool's task: case c := <-pool.s, the Status of every Session, and
\* c <- s, on which Pool.Status returns
TaskStatus ==
    /\ pool.pc = "select"
    /\ pool.calls["Status"] = "blocked"
    /\ pool' = [pool EXCEPT !.calls["Status"] = "idle"]
    /\ UNCHANGED <<monVars, dirVars, funVars, connection, sessions, poolRib, sess>>

\* the pool's task: case r := <-pool.r, on which Pool.RIB(r) returns, and
\* rib = dup(r); the range over sessions is about to start
TaskRIB(r) ==
    /\ pool.pc = "select"
    /\ pool.calls["RIB"] = "blocked"
    /\ poolRib' = PoolRIBList(r)
    /\ \E o \in Orders({peer \in Peers : sessions[peer] # 0}) :
          pool' = [pool EXCEPT !.calls["RIB"] = "idle", !.todo = o,
                               !.pc = IF o = <<>> THEN "select" ELSE "rib"]
    /\ UNCHANGED <<monVars, dirVars, funVars, connection, sessions, sess>>

\* the pool's task in the loop of case <-pool.r: session.RIB(rib), which
\* waits while the channel of the Session is full
TaskSessionRIB ==
    /\ pool.pc = "rib"
    /\ LET id == <<Head(pool.todo), sessions[Head(pool.todo)]>>
       IN  /\ Len(sess[id].c) < MaxQueued
           /\ sess' = [sess EXCEPT ![id] = SessionRIB(@, poolRib)]
    /\ pool' = [pool EXCEPT !.todo = Tail(@),
                            !.pc = IF Len(pool.todo) = 1 THEN "select" ELSE "rib"]
    /\ UNCHANGED <<monVars, dirVars, funVars, connection, sessions, poolRib>>

\* the pool's task: case i, ok := <-pool.c with ok, on which
\* Pool.Configure(m) returns; the range over i is about to start. The
\* model has MaxSessions Sessions for a peer: m leaves out a peer only
\* while the peer can be added again
TaskConfigure(m) ==
    /\ pool.pc = "select"
    /\ pool.calls["Configure"] = "blocked"
    /\ \A peer \in Peers \ DOMAIN m :
          sessions[peer] # 0 => FreeSessSlot(peer) # 0
    /\ \E o \in Orders(DOMAIN m) :
          pool' = [pool EXCEPT !.calls["Configure"] = "idle", !.msg = m,
                               !.todo = o, !.pc = "configure"]
    /\ UNCHANGED <<monVars, dirVars, funVars, connection, sessions, poolRib, sess>>

\* the pool's task in the first loop of case <-pool.c:
\* session.Configure(params), which waits while the channel of the Session
\* is full, or NewSession for a peer that has none
TaskConfigurePeer ==
    /\ pool.pc = "configure"
    /\ pool.todo # <<>>
    /\ LET peer == Head(pool.todo)
       IN  IF sessions[peer] # 0
           THEN /\ Len(sess[<<peer, sessions[peer]>>].c) < MaxQueued
                /\ sess' = [sess EXCEPT ![<<peer, sessions[peer]>>] =
                               SessionConfigure(@, pool.msg[peer])]
                /\ UNCHANGED sessions
           ELSE /\ FreeSessSlot(peer) # 0
                /\ sessions' = [sessions EXCEPT ![peer] = FreeSessSlot(peer)]
                /\ sess' = [sess EXCEPT ![<<peer, FreeSessSlot(peer)>>] =
                               NewSession(pool.msg[peer], poolRib)]
    /\ pool' = [pool EXCEPT !.todo = Tail(@)]
    /\ UNCHANGED <<monVars, dirVars, funVars, connection, poolRib>>

\* the pool's task in the second loop of case <-pool.c: the Sessions of
\* the peers that i leaves out are closed and deleted; back to the select
TaskConfigureEnd ==
    /\ pool.pc = "configure"
    /\ pool.todo = <<>>
    /\ sessions' = [peer \in Peers |->
                      IF peer \in DOMAIN pool.msg THEN sessions[peer] ELSE 0]
    /\ sess' = [id \in SessIds |->
                  IF id[1] \notin DOMAIN pool.msg /\ sessions[id[1]] = id[2]
                  THEN SessionClose(sess[id])
                  ELSE sess[id]]
    /\ pool' = [pool EXCEPT !.pc = "select", !.msg = <<>>]
    /\ UNCHANGED <<monVars, dirVars, funVars, connection, poolRib>>

\* a message try gives conn.queue: its type and, for a NOTIFICATION, the
\* code and the subcode
Queued(type, code, sub) == [type |-> type, code |-> code, sub |-> sub]

\* the OPEN checks of try that let any hold time pass
OpenErrorAnyHold(o) ==
    IF o.version # 4 THEN "UNSUPPORTED_VERSION_NUMBER"
    ELSE IF o.routerID = Routerid THEN "BAD_BGP_ID"
    ELSE ""

\* the OPEN checks of try: the subcode of the first that fails, "" if none
OpenError(o) ==
    IF o.version # 4 THEN "UNSUPPORTED_VERSION_NUMBER"
    ELSE IF o.holdTime < 3 THEN "UNNACEPTABLE_HOLD_TIME"
    ELSE IF o.routerID = Routerid THEN "BAD_BGP_ID"
    ELSE ""

\* a notify that returns the notification and does not queue it
FsmNotifyUnqueued(s, code, sub) ==
    [Return(s, "Sent notification: " \o code \o ", " \o sub)
        EXCEPT !.rx = NoMsg, !.hold = "reset"]

\* return false, notify(code, sub): the NOTIFICATION is queued and try
\* returns; session records "Sent notification", the deferred conn.close()
\* ends the reader, the deferred hold_timer.Stop() the timer
FsmNotify(s, code, sub) ==
    [Return(s, "Sent notification: " \o code \o ", " \o sub)
        EXCEPT !.sent = @ \cup {Queued("NOTIFICATION", code, sub)},
               !.rx = NoMsg, !.hold = "reset"]

\* a return of try that queues nothing
FsmReturn(s, e) == [Return(s, e) EXCEPT !.rx = NoMsg, !.hold = "reset"]

\* a try that goes from s.active to OPEN_SENT without s.connect()
FsmDialSkips(id, how) ==
    /\ sess[id].pc = "dial"
    /\ sess' =
        [sess EXCEPT ![id] =
            CASE how = "fail" -> FsmReturn(@, "CONNECTION_FAILED")
              [] how = "nolocal" -> FsmReturn(@, "INVALID_LOCALIP")
              [] OTHER -> [@ EXCEPT !.pc = "connected", !.conn = TRUE,
                                    !.ipv6 = (how = "v6"),
                                    !.locals = LocalOf(@, how),
                                    !.State = "OPEN_SENT"]]
    /\ UNCHANGED <<monVars, dirVars, funVars, connection, pool, sessions, poolRib>>

\* newConnection and conn.local() return: an error, no usable local
\* address, or a connection, and then s.connect()
FsmDial(id, how) ==
    /\ sess[id].pc = "dial"
    /\ sess' =
        [sess EXCEPT ![id] =
            CASE how = "fail" -> FsmReturn(@, "CONNECTION_FAILED")
              [] how = "nolocal" -> FsmReturn(@, "INVALID_LOCALIP")
              [] OTHER -> [@ EXCEPT !.pc = "connected", !.conn = TRUE,
                                    !.ipv6 = (how = "v6"),
                                    !.locals = LocalOf(@, how),
                                    !.State = "CONNECT"]]
    /\ UNCHANGED <<monVars, dirVars, funVars, connection, pool, sessions, poolRib>>

\* try queues its OPEN and then s.state(OPEN_SENT); the hold timer is made
\* and the next hops are settled
FsmOpenSent(id) ==
    /\ sess[id].pc = "connected"
    /\ sess' = [sess EXCEPT ![id].pc = "try", ![id].State = "OPEN_SENT",
                            ![id].sent = @ \cup {Queued("OPEN", "", "")},
                            ![id].hold = "reset",
                            ![id].locals = NextHops(@)]
    /\ UNCHANGED <<monVars, dirVars, funVars, connection, pool, sessions, poolRib>>

\* the hold time passes while try is in its select
FsmTime(id) ==
    /\ sess[id].pc = "try"
    /\ sess[id].hold = "reset"
    /\ sess' = [sess EXCEPT ![id].hold = "due"]
    /\ UNCHANGED <<monVars, dirVars, funVars, connection, pool, sessions, poolRib>>

\* the reader of the connection has a message of the peer, or the end of
\* the connection, and offers it on conn.C
PeerSends(id, m) ==
    /\ sess[id].conn
    /\ sess[id].rx = NoMsg
    /\ sess' = [sess EXCEPT ![id].rx = m]
    /\ UNCHANGED <<monVars, dirVars, funVars, connection, pool, sessions, poolRib>>

\* the select of try takes the message from conn.C and resets the hold
\* timer. A good OPEN in OPEN_SENT: the lower hold time of the two,
\* s.established and the KEEPALIVE queued
FsmMessage(id) ==
    LET s == sess[id]
        m == s.rx
        t == [s EXCEPT !.rx = NoMsg, !.hold = "reset"]
    IN  /\ s.pc = "try"
        /\ m # NoMsg
        /\ sess' = [sess EXCEPT ![id] =
              CASE m.type = "closed" -> FsmReturn(t, "REMOTE_SHUTDOWN")
                [] m.type = "NOTIFICATION" -> FsmReturn(t, "Received notification")
                [] m.type = "KEEPALIVE" ->
                      IF s.State = "OPEN_SENT" THEN FsmNotify(t, "FSM_ERROR", "0")
                      ELSE t
                [] m.type = "OPEN" ->
                      IF s.State # "OPEN_SENT" THEN FsmNotify(t, "FSM_ERROR", "0")
                      ELSE IF OpenError(m) # ""
                      THEN FsmNotify(t, "OPEN_MESSAGE_ERROR", OpenError(m))
                      ELSE [t EXCEPT !.State = "ESTABLISHED", !.LastError = "",
                                     !.pc = "advertise",
                                     !.locals.holdtime = Min(m.holdTime, @),
                                     !.sent = @ \cup {Queued("KEEPALIVE", "", "")}]
                [] m.type = "UPDATE" ->
                      IF s.State # "ESTABLISHED" THEN FsmNotify(t, "FSM_ERROR", "0")
                      ELSE t
                [] OTHER -> FsmNotify(t, "MESSAGE_HEADER_ERROR", "BAD_MESSAGE_TYPE")]
        /\ UNCHANGED <<monVars, dirVars, funVars, connection, pool, sessions, poolRib>>

\* what Advertise leaves, with the messages it queues
FsmAdvertised(t) ==
    IF t.pc = "wait"
    THEN [t EXCEPT !.sent = @ \cup {Queued("NOTIFICATION", "CEASE", "OUT_OF_RESOURCES")},
                   !.rx = NoMsg]
    ELSE IF t.queued # <<>>
    THEN [t EXCEPT !.pc = "try", !.sent = @ \cup {Queued("UPDATE", "", "")}]
    ELSE [t EXCEPT !.pc = "try"]

\* try after s.established: the NLRI of s.update, the UPDATEs queued or
\* CEASE
FsmAdvertise(id) ==
    /\ sess[id].pc = "advertise"
    /\ \E t \in Advertise(sess[id], sess[id].update, {}, FALSE) :
          sess' = [sess EXCEPT ![id] = FsmAdvertised(t)]
    /\ UNCHANGED <<monVars, dirVars, funVars, connection, pool, sessions, poolRib>>

\* the select of try takes the channel updates: closed, or an _update
FsmUpdate(id) ==
    LET s == sess[id]
    IN  /\ s.pc = "try"
        /\ IF s.c = <<>>
           THEN /\ s.closed
                /\ sess' = [sess EXCEPT ![id] =
                              FsmNotify(s, "CEASE", "ADMINISTRATIVE_SHUTDOWN")]
           ELSE LET r == Head(s.c)
                    u == [s EXCEPT !.c = Tail(s.c)]
                IN  \E t \in (IF s.State = "ESTABLISHED"
                              THEN Advertise(u, r, s.adjRIBOut,
                                             Diff(s.parameters, r.Parameters))
                              ELSE {u}) :
                        sess' = [sess EXCEPT ![id] =
                                    IF t.pc = "try"
                                    THEN [FsmAdvertised(t) EXCEPT !.update = r]
                                    ELSE FsmAdvertised(t)]
        /\ UNCHANGED <<monVars, dirVars, funVars, connection, pool, sessions, poolRib>>

\* the select of try takes the keepalive timer
FsmKeepalive(id) ==
    /\ sess[id].pc = "try"
    /\ sess[id].State = "ESTABLISHED"
    /\ sess' = [sess EXCEPT ![id].sent = @ \cup {Queued("KEEPALIVE", "", "")}]
    /\ UNCHANGED <<monVars, dirVars, funVars, connection, pool, sessions, poolRib>>

\* the select of try takes the hold timer
FsmHold(id) ==
    /\ sess[id].pc = "try"
    /\ sess[id].hold = "due"
    /\ sess' = [sess EXCEPT ![id] = FsmNotify(@, "HOLD_TIMER_EXPIRED", "0")]
    /\ UNCHANGED <<monVars, dirVars, funVars, connection, pool, sessions, poolRib>>

(***************************************************************************)
(* bgp.connection                                                          *)
(***************************************************************************)

\* newConnection: the dial has succeeded, writer and reader are started
NewConnection ==
    [NoConnection EXCEPT !.tcp = "open", !.writer = "select", !.reader = "read"]

\* select { case c.pending <- true: default: }
Pending(c) == [c EXCEPT !.pending = 1]

\* a queue that appends and does not send on pending
QueueNoWake(c, ms) == [c EXCEPT !.out = @ \o ms, !.queued = @ \o ms]

\* conn.queue(ms...), under c.mutex
Queue(c, ms) == Pending([c EXCEPT !.out = @ \o ms, !.queued = @ \o ms])

\* a shift that takes the last PDU of c.out
ConnShiftLast(c) ==
    IF Len(c.out) < 1 THEN [c EXCEPT !.m = <<>>]
    ELSE Pending([c EXCEPT !.m = <<c.out[Len(c.out)]>>,
                           !.out = SubSeq(c.out, 1, Len(c.out) - 1)])

\* conn.shift(), under c.mutex: m is <<>> when it returns false
ConnShift(c) ==
    IF Len(c.out) < 1 THEN [c EXCEPT !.m = <<>>]
    ELSE Pending([c EXCEPT !.m = <<Head(c.out)>>, !.out = Tail(c.out)])

\* the writer returns: the deferred c.conn.Close() and close(c.writer_exit)
WriterReturn(c) == [c EXCEPT !.writer = "done", !.tcp = "closed", !.m = <<>>]

\* a reader that returns without close(c.C)
ReaderReturnOpen(c) == [c EXCEPT !.reader = "done"]

\* the reader returns: the deferred close(c.C) and close(c.reader_exit)
ReaderReturn(c) == [c EXCEPT !.reader = "done", !.closes = @ + 1]

\* the PDUs of a call of conn.queue: a KEEPALIVE, or the one or two UPDATEs
\* made for the _update the caller took from its channel; id numbers the
\* PDUs in the order of the calls, timely tells that the call came while
\* the writer ran, before close and before the reader's exit
Pdus(c, kind) ==
    LET timely == c.writer # "done" /\ ~c.closed /\ c.reader # "done"
        pdu(n, type, update) ==
            [id |-> Len(c.queued) + n, type |-> type, update |-> update,
             timely |-> timely]
    IN  CASE kind = "KEEPALIVE" -> <<pdu(1, "KEEPALIVE", 0)>>
          [] kind = "UPDATE" -> <<pdu(1, "UPDATE", c.taken + 1)>>
          [] OTHER -> <<pdu(1, "UPDATE", c.taken + 1), pdu(2, "UPDATE", c.taken + 1)>>

\* try calls newConnection, which succeeds
ConnDial ==
    /\ connection = NoConnection
    /\ connection' = NewConnection
    /\ UNCHANGED <<monVars, dirVars, funVars, sessions, poolRib, pool, sess>>

\* try, before it returns, calls conn.queue: a KEEPALIVE, or the UPDATEs of
\* the next _update of its channel
ConnQueue(kind) ==
    LET c == connection
        ms == Pdus(c, kind)
    IN  /\ c.writer # "none"
        /\ ~c.closed
        /\ Len(c.queued) + Len(ms) <= MaxQueue
        /\ connection' =
              Queue([c EXCEPT !.taken = IF kind = "KEEPALIVE" THEN @ ELSE @ + 1],
                    ms)
        /\ UNCHANGED <<monVars, dirVars, funVars, sessions, poolRib, pool, sess>>

\* try returns: the deferred conn.close()
ConnClose ==
    /\ connection.writer # "none"
    /\ ~connection.closed
    /\ connection' = [connection EXCEPT !.closed = TRUE]
    /\ UNCHANGED <<monVars, dirVars, funVars, sessions, poolRib, pool, sess>>

\* the select of the writer takes one of its cases and calls c.drain()
WriterSelect(case) ==
    LET c == connection
    IN  /\ c.writer = "select"
        /\ CASE case = "closed" -> c.closed
             [] case = "reader_exit" -> c.reader = "done"
             [] OTHER -> c.pending = 1
        /\ connection' =
              [c EXCEPT !.writer = "shift", !.final = (case # "pending"),
                        !.pending = IF case = "pending" THEN 0 ELSE @]
        /\ UNCHANGED <<monVars, dirVars, funVars, sessions, poolRib, pool, sess>>

\* drain calls c.shift(): with no PDU it returns true, and the writer
\* returns or goes back to its select
WriterShift ==
    LET c == connection
        d == ConnShift(c)
    IN  /\ c.writer = "shift"
        /\ connection' =
              IF d.m # <<>> THEN [d EXCEPT !.writer = "write"]
              ELSE IF c.final THEN WriterReturn(d)
              ELSE [d EXCEPT !.writer = "select"]
        /\ UNCHANGED <<monVars, dirVars, funVars, sessions, poolRib, pool, sess>>

\* c.conn.Write(m) returns: the PDU is on the socket, or an error, on which
\* drain returns false and the writer returns
WriterWrite(ok) ==
    LET c == connection
    IN  /\ c.writer = "write"
        /\ connection' =
              IF ok THEN [c EXCEPT !.written = Append(@, c.m[1]), !.m = <<>>,
                                   !.writer = "shift"]
              ELSE WriterReturn([c EXCEPT !.failed = TRUE])
        /\ UNCHANGED <<monVars, dirVars, funVars, sessions, poolRib, pool, sess>>

\* io.ReadFull returns in the reader: a message of the peer, or an error
\* (the peer has closed, the header is bad, c.conn is closed)
ReaderRead(how) ==
    LET c == connection
    IN  /\ c.reader = "read"
        /\ how = "message" => c.tcp = "open"
        /\ connection' =
              IF how = "message" THEN [c EXCEPT !.reader = "offer"]
              ELSE ReaderReturn(c)
        /\ UNCHANGED <<monVars, dirVars, funVars, sessions, poolRib, pool, sess>>

\* the select of the reader: try, which has not returned, takes the message
\* from c.C, or c.closed or c.writer_exit is closed
ReaderOffer(case) ==
    LET c == connection
    IN  /\ c.reader = "offer"
        /\ CASE case = "C" -> ~c.closed
             [] case = "closed" -> c.closed
             [] OTHER -> c.writer = "done"
        /\ connection' =
              IF case = "C" THEN [c EXCEPT !.reader = "read"]
              ELSE ReaderReturn(c)
        /\ UNCHANGED <<monVars, dirVars, funVars, sessions, poolRib, pool, sess>>

(***************************************************************************)

(* The monitor on its own: any caller of Update, any probe results.        *)
(***************************************************************************)

\* the Instances the caller of the monitor uses
MonInstances ==
    {i \in Instances :
        /\ i.Service = [Address |-> 1, Port |-> 80, Protocol |-> TCP]
        /\ i.Destination = [Address |-> 1, Port |-> 80]}

TargetMaps ==
    UNION {[S -> Targets] : S \in SUBSET MonInstances}

MonInit ==
    /\ services = [i \in Instances |-> 0]
    /\ loops = [id \in LoopIds |-> FreeLoop]
    /\ monC = 0

\* a Director that has not been started
DirInit ==
    /\ cfg = <<>>
    /\ err = "none"
    /\ bg = "off"
    /\ die = FALSE
    /\ dirC = 0
    /\ balanced = <<>>
    /\ mutex = "free"

\* no function is applied on its own
NoFun ==
    /\ arg = <<>>
    /\ res = <<>>
    /\ NoPool

\* a monitor with no Instance, used without a Director
MonOnlyInit == MonInit /\ DirInit /\ NoFun

\* the caller adds an Instance only when no earlier loop of it is still alive
NoStaleLoop(checks) ==
    \A i \in DOMAIN checks :
        services[i] = 0 => \A k \in Slots : loops[<<i, k>>].pc = "free"

MonNext ==
    \/ \E checks \in TargetMaps :
          NoStaleLoop(checks) /\ MonUpdate(checks) /\ UNCHANGED <<dirVars, restVars>>
    \/ \E id \in LoopIds : LoopRecv(id) /\ UNCHANGED <<dirVars, restVars>>
    \/ \E id \in LoopIds : LoopTick(id) /\ UNCHANGED <<dirVars, restVars>>
    \/ \E id \in LoopIds, ok \in BOOLEAN :
          LoopProbeDone(id, ok) /\ UNCHANGED <<dirVars, restVars>>
    \/ TakeC /\ UNCHANGED <<dirVars, restVars>>

SpecMon == MonOnlyInit /\ [][MonNext]_vars

(***************************************************************************)
(* The Director and its monitor.                                           *)
(***************************************************************************)

\* services of a list handed to Configure
MaxCfgLen == 2

Dest(a, p) ==
    [Address |-> a, Port |-> p, Disabled |-> FALSE, Weight |-> 1, Checks |-> 0]

Svc(v, p, pr, dl) ==
    [Address |-> v, Port |-> p, Protocol |-> pr, Required |-> 1,
     Destinations |-> dl]

DestLists == {<<Dest(1, 80)>>, <<Dest(1, 80), Dest(2, 80)>>, <<Dest(1, 0)>>}

\* the services a caller configures: on VIP 1 every tuple, with one
\* destination, with two, or with a destination of port 0; on VIP 2 one service
Catalogue ==
    {s \in {Svc(v, p, pr, dl) : v \in VIPs, p \in Ports, pr \in Protos,
                                dl \in DestLists} :
        /\ s.Address = 2 =>
              s.Port = 80 /\ s.Protocol = TCP /\ s.Destinations = <<Dest(1, 80)>>
        /\ s.Port = 0 => s.Protocol = TCP /\ s.Destinations = <<Dest(1, 80)>>
        /\ s.Protocol \notin {TCP, UDP} => s.Destinations = <<Dest(1, 80)>>}

Configs == UNION {[1 .. n -> Catalogue] : n \in 0 .. MaxCfgLen}

Errors ==
    {"nil", "Service port cannot be 0", "Only TCP and UDP protocols supported",
     "Destination port cannot be 0"}

\* every probe loop has received what was sent to it and every loop whose
\* channel was closed has returned
Quiet ==
    \A id \in LoopIds :
        loops[id].pc # "free" => loops[id].q = <<>> /\ ~loops[id].closed

\* the Director's users and its background task. The user calls Configure
\* when the monitor is quiet; the probe loops receive from their channels
\* and no ticker fires
DirNext ==
    \/ \E config \in Configs, e \in Errors :
          DirStart(config, e) /\ UNCHANGED <<mutex, restVars>>
    \/ \E config \in Configs, e \in Errors :
          Quiet /\ DirConfigure(config, e) /\ UNCHANGED <<mutex, restVars>>
    \/ DirStop /\ UNCHANGED <<mutex, restVars>>
    \/ DirTrigger /\ UNCHANGED <<mutex, restVars>>
    \/ BgWake /\ UNCHANGED <<mutex, restVars>>
    \/ BgDie /\ UNCHANGED <<mutex, restVars>>
    \/ BgExit /\ UNCHANGED <<mutex, restVars>>
    \/ TakeDirC /\ UNCHANGED <<mutex, restVars>>
    \/ \E id \in LoopIds : LoopRecv(id) /\ UNCHANGED <<dirVars, restVars>>

SpecDir == MonOnlyInit /\ [][DirNext]_vars

(***************************************************************************)
(* The life cycle of the probe loops: any caller of Update, also one that  *)
(* adds an Instance again while an earlier loop of it is still alive, and  *)
(* a Prober whose probes all fail.                                         *)
(***************************************************************************)

LoopsNext ==
    \/ \E checks \in TargetMaps : MonUpdate(checks) /\ UNCHANGED <<dirVars, restVars>>
    \/ \E id \in LoopIds : LoopRecv(id) /\ UNCHANGED <<dirVars, restVars>>
    \/ \E id \in LoopIds : LoopTick(id) /\ UNCHANGED <<dirVars, restVars>>
    \/ \E id \in LoopIds : LoopProbeDone(id, FALSE) /\ UNCHANGED <<dirVars, restVars>>
    \/ TakeC /\ UNCHANGED <<dirVars, restVars>>

SpecLoops == MonOnlyInit /\ [][LoopsNext]_vars

(***************************************************************************)
(* A running Director: its users, its background task and the probe loops  *)
(* with their tickers, under a Prober whose probes all fail. The users     *)
(* configure one service with one destination, or none, at any moment.     *)
(***************************************************************************)

RunConfigs ==
    {<<>>,
     <<Svc(1, 80, TCP, <<Dest(1, 80)>>)>>}

\* the probe loops these configurations can start
RunLoopIds ==
    {id \in LoopIds :
        \E config \in RunConfigs :
            id[1] \in DOMAIN DirTargets(<<>>, IndexCfg(config))}

RunNext ==
    \/ \E config \in RunConfigs : DirStart(config, "nil") /\ UNCHANGED <<mutex, restVars>>
    \/ \E config \in RunConfigs : DirConfigure(config, "nil") /\ UNCHANGED <<mutex, restVars>>
    \/ DirStop /\ UNCHANGED <<mutex, restVars>>
    \/ BgWake /\ UNCHANGED <<mutex, restVars>>
    \/ BgDie /\ UNCHANGED <<mutex, restVars>>
    \/ BgExit /\ UNCHANGED <<mutex, restVars>>
    \/ \E id \in LoopIds : LoopRecv(id) /\ UNCHANGED <<dirVars, restVars>>
    \/ \E id \in LoopIds : LoopTick(id) /\ UNCHANGED <<dirVars, restVars>>
    \/ \E id \in LoopIds : LoopProbeDone(id, FALSE) /\ UNCHANGED <<dirVars, restVars>>

\* The background task's select takes the closed die channel in the end, a
\* started probe ends, and a probe loop's select, which picks at random
\* among the ready cases, takes its channel in the end
RunFairness ==
    /\ WF_vars(BgDie /\ UNCHANGED <<mutex, restVars>>)
    /\ WF_vars(BgExit /\ UNCHANGED <<mutex, restVars>>)
    /\ \A id \in RunLoopIds :
          /\ WF_vars(LoopProbeDone(id, FALSE) /\ UNCHANGED <<dirVars, restVars>>)
          /\ SF_vars(LoopRecv(id) /\ UNCHANGED <<dirVars, restVars>>)

SpecRun == MonOnlyInit /\ [][RunNext]_vars /\ RunFairness

(***************************************************************************)
(* HealthyVIPs and AllVIPs applied to any list of services.                *)
(***************************************************************************)

\* services of a list handed to HealthyVIPs
MaxServices == 3

VipLists ==
    UNION {[1 .. n -> [Address : VIPs, Up : BOOLEAN]] : n \in 0 .. MaxServices}

VipsInit ==
    /\ MonInit
    /\ DirInit
    /\ NoPool
    /\ arg \in VipLists
    /\ res = <<>>

VipsCall ==
    /\ res = <<>>
    /\ res' = <<[all |-> AllVIPs(arg), healthy |-> HealthyVIPs(arg)]>>
    /\ UNCHANGED <<arg, monVars, dirVars, bgpVars>>

SpecVips == VipsInit /\ [][VipsCall]_vars

(***************************************************************************)
(* Director.status applied to one service with any number of destinations, *)
(* of which the first ones may be disabled, of weight 0 or not OK.         *)
(***************************************************************************)

\* destinations of the service
MaxDests == 257

\* the Required of the service
MaxRequired == 2

\* destinations that may be unhealthy
MaxBad == 2

DestCounts == (0 .. 3) \cup ((MaxDests - 2) .. MaxDests)

StatusArgs ==
    {a \in [n : DestCounts, required : 0 .. MaxRequired,
            bad : SUBSET (1 .. MaxBad), kind : {"disabled", "weight", "down"}] :
        /\ a.bad \subseteq 1 .. a.n
        /\ a.bad = {} => a.kind = "down"}

\* the service of argument a
StatusCfg(a) ==
    IndexCfg(<<[Address |-> 1, Port |-> 80, Protocol |-> TCP,
                Required |-> a.required,
                Destinations |->
                    [k \in 1 .. a.n |->
                        [Address |-> k, Port |-> 80,
                         Disabled |-> a.kind = "disabled" /\ k \in a.bad,
                         Weight |-> IF a.kind = "weight" /\ k \in a.bad
                                    THEN 0 ELSE 1,
                         Checks |-> 0]]]>>)

\* what the monitor answers for argument a
StatusMon(a, i) ==
    [OK |-> ~(a.kind = "down" /\ i.Destination.Address \in a.bad),
     Initialised |-> TRUE]

StatusInit ==
    /\ MonInit
    /\ DirInit
    /\ NoPool
    /\ arg \in StatusArgs
    /\ res = <<>>

StatusCall ==
    /\ res = <<>>
    /\ res' = <<DirStatus(StatusCfg(arg),
                          [i \in CfgInstances(StatusCfg(arg)) |-> StatusMon(arg, i)])>>
    /\ UNCHANGED <<arg, monVars, dirVars, bgpVars>>

SpecStatus == StatusInit /\ [][StatusCall]_vars

(***************************************************************************)
(* A started Director whose configuration stays, with the steps of a probe *)
(* loop's iteration and of the background task taken one at a time: the    *)
(* loop writes state.status and then signals Mon.C, the background task    *)
(* takes the signal and then, under the Director's mutex, runs update.     *)
(***************************************************************************)

\* a loop that never signals Mon.C
LoopSignalLost(id) ==
    /\ loops[id].pc = "signal"
    /\ loops' = [loops EXCEPT ![id].pc = "wait"]
    /\ UNCHANGED <<services, monC>>

\* the probe loop's if changed { select { case m.C <- true: default: } }
LoopSignal(id) ==
    /\ loops[id].pc = "signal"
    /\ loops' = [loops EXCEPT ![id].pc = "wait"]
    /\ monC' = Signal(monC)
    /\ UNCHANGED services

\* the probe loop from m.probes returning ok to the write of state.status
LoopProbeWrite(id, ok) ==
    /\ loops[id].pc = "probe"
    /\ LET l == loops[id]
           h == Shift(l.history, ok)
           nowOK == Hysteresis(l.was.OK, Passed(h))
       IN  loops' = [loops EXCEPT ![id] =
               [l EXCEPT !.pc = IF Changed(l.was, nowOK) THEN "signal" ELSE "wait",
                         !.history = h,
                         !.status = [OK |-> nowOK, Initialised |-> TRUE],
                         !.notified = IF NotifyDue(l.was, nowOK)
                                      THEN Notify(@, nowOK) ELSE @,
                         !.When = IF Changed(l.was, nowOK)
                                  THEN "probe" ELSE @]]
    /\ UNCHANGED <<services, monC>>

\* Director.background: case <-d.mon.C is taken, d.mutex is not yet held
BgTake ==
    /\ bg = "run"
    /\ monC = 1
    /\ monC' = 0
    /\ bg' = "woken"
    /\ UNCHANGED <<services, loops, cfg, err, die, dirC, balanced>>

\* Director.background: d.mutex.Lock(); d.update(); d.mutex.Unlock()
BgUpdate ==
    /\ bg = "woken"
    /\ DirUpdate
    /\ bg' = "run"
    /\ UNCHANGED <<services, loops, monC, cfg, err, die>>

\* the list the Director is started with: two services, not in sorted
\* order, the second of them with a destination
InformConfig ==
    <<Svc(2, 80, TCP, <<>>), Svc(1, 80, TCP, <<Dest(1, 80)>>)>>

\* the probe loops Start makes for this list: no Instance is added twice
InformLoopIds ==
    {id \in LoopIds :
        /\ id[1] \in DOMAIN DirTargets(<<>>, IndexCfg(InformConfig))
        /\ id[2] = 1}

InformNext ==
    \/ DirStart(InformConfig, "nil") /\ UNCHANGED <<mutex, restVars>>
    \/ BgTake /\ UNCHANGED <<mutex, restVars>>
    \/ BgUpdate /\ UNCHANGED <<mutex, restVars>>
    \/ \E id \in LoopIds : LoopTick(id) /\ UNCHANGED <<dirVars, restVars>>
    \/ \E id \in LoopIds, ok \in BOOLEAN :
          LoopProbeWrite(id, ok) /\ UNCHANGED <<dirVars, restVars>>
    \/ \E id \in LoopIds : LoopSignal(id) /\ UNCHANGED <<dirVars, restVars>>

\* the background task, when a signal is buffered, takes it in the end and
\* gets the mutex in the end; a loop that changed its status goes on to signal
InformFairness ==
    /\ WF_vars(BgTake /\ UNCHANGED <<mutex, restVars>>)
    /\ WF_vars(BgUpdate /\ UNCHANGED <<mutex, restVars>>)
    /\ \A id \in InformLoopIds :
          WF_vars(LoopSignal(id) /\ UNCHANGED <<dirVars, restVars>>)

SpecInform == MonOnlyInit /\ [][InformNext]_vars /\ InformFairness

(***************************************************************************)
(* Parameters.filter applied to any list of addresses of both families,    *)
(* under any Accept and Reject lists made of the prefixes of the model.    *)
(***************************************************************************)

\* the Parameters the filter is given: the fields it does not read are zero
FilterParameters ==
    [ASNumber : {0}, HoldTime : {0}, SourceIP : {Nul4}, NextHop4 : {Nul4},
     NextHop6 : {0},
     Multiprotocol : BOOLEAN, LocalPref : {0}, MED : {0}, Communities : {0},
     Accept : SUBSET Prefixes, Reject : SUBSET Prefixes]

\* the lists of at most MaxRibLen addresses
AddrLists == UNION {[1 .. n -> Addrs] : n \in 0 .. MaxRibLen}

FilterArgs == [p : FilterParameters, ipv6 : BOOLEAN, dest : AddrLists]

FilterInit ==
    /\ MonInit
    /\ DirInit
    /\ NoPool
    /\ arg \in FilterArgs
    /\ res = <<>>

FilterCall ==
    /\ res = <<>>
    /\ res' = <<Filter(arg.p, arg.ipv6, arg.dest)>>
    /\ UNCHANGED <<arg, monVars, dirVars, bgpVars>>

SpecFilter == FilterInit /\ [][FilterCall]_vars

(***************************************************************************)
(* update.updates applied to any NLRI map that is not empty, under         *)
(* templates whose list of communities is empty or so long that one, two   *)
(* or more prefixes do not fit in one body.                                *)
(***************************************************************************)

\* the templates: Communities is the length of the list
Templates ==
    [External : BOOLEAN, LocalPref : {0, 100}, MED : {0},
     Communities : {0, 985, 993, 1000}]

\* the NLRI maps that are not empty
NlriMaps == UNION {[ks -> BOOLEAN] : ks \in (SUBSET Addrs) \ {{}}}

FragArgs == [u : Templates, m : NlriMaps]

FragInit ==
    /\ MonInit
    /\ DirInit
    /\ NoPool
    /\ arg \in FragArgs
    /\ res = <<>>

FragCall ==
    /\ res = <<>>
    /\ \E r \in Updates(arg.u, arg.m) : res' = <<r>>
    /\ UNCHANGED <<arg, monVars, dirVars, bgpVars>>

SpecFrag == FragInit /\ [][FragCall]_vars

(***************************************************************************)
(* One Session of a pool: the pool's user changes the Parameters of the    *)
(* peer and the RIB at any moment, the peer accepts or refuses the         *)
(* connection and sends any message at any moment. The Parameters differ   *)
(* in the communities (none, one, or 1000, with which no prefix fits in an *)
(* UPDATE) and in the Reject list.                                         *)
(***************************************************************************)

\* the Parameters the user gives the peer
SessParameters ==
    [ASNumber : {0}, HoldTime : {0}, SourceIP : {Nul4}, NextHop4 : {Nul4},
     NextHop6 : {0},
     Multiprotocol : {FALSE}, LocalPref : {0}, MED : {0},
     Communities : {0, 1, 1000}, Accept : {{}},
     Reject : {{}, {{AddrFrom4(1)}}}]

\* the lists the user gives Pool.RIB
SessRibs ==
    {<<>>, <<AddrFrom4(1), AddrFrom4(2)>>}

\* the peer of the Session
ThePeer == {<<1, 1>>}

SessNext ==
    \/ \E p \in SessParameters : PoolConfigure([peer \in {1} |-> p])
    \/ \E r \in SessRibs : PoolRIB(r)
    \/ \E id \in ThePeer : SessStore(id)
    \/ \E id \in ThePeer : SessTimer(id)
    \/ \E id \in ThePeer : \E how \in {"fail", "nolocal", "v4", "v6"} : SessConnect(id, how)
    \/ \E id \in ThePeer : \E m \in Messages : TryMessage(id, m)
    \/ \E id \in ThePeer : TryUpdate(id)
    \/ \E id \in ThePeer : TryHold(id)

SpecSess == MonOnlyInit /\ [][SessNext]_vars

(***************************************************************************)
(* A pool and the channels of its Sessions: the pool's user configures any *)
(* set of peers at any moment and gives the pool lists of IPv4 and IPv6    *)
(* addresses. The Sessions are followed while they wait in the select of   *)
(* session: they store the _updates they are sent and return when closed.  *)
(***************************************************************************)

\* the Parameters the user gives every peer
PoolParameters ==
    [ASNumber : {0}, HoldTime : {0}, SourceIP : {Nul4}, NextHop4 : {Nul4},
     NextHop6 : {0},
     Multiprotocol : {TRUE}, LocalPref : {0}, MED : {0}, Communities : {0},
     Accept : {{}}, Reject : {{}}]

\* the maps the user gives Pool.Configure
PoolConfigs == UNION {[ps -> PoolParameters] : ps \in SUBSET Peers}

\* the lists the user gives Pool.RIB
PoolRibs == {<<>>, <<AddrFrom4(1), [fam |-> 6, ip |-> 1]>>}

PoolNext ==
    \/ \E m \in PoolConfigs : PoolConfigure(m)
    \/ \E r \in PoolRibs : PoolRIB(r)
    \/ \E id \in SessIds : SessStore(id)
    \/ \E id \in SessIds : SessExit(id)

SpecPool == MonOnlyInit /\ [][PoolNext]_vars

(***************************************************************************)
(* A pool made with any RIB, and the Sessions of one peer: the pool's user *)
(* configures the peer, with one Reject list or another, or leaves it out, *)
(* at any moment, also adding it again while the Session closed for it is  *)
(* still running. The peer accepts or refuses connections, sends OPEN or   *)
(* closes the connection.                                                  *)
(***************************************************************************)

\* the Parameters the user gives the peer
PeerParameters ==
    [ASNumber : {0}, HoldTime : {0}, SourceIP : {Nul4}, NextHop4 : {Nul4},
     NextHop6 : {0},
     Multiprotocol : {FALSE}, LocalPref : {0}, MED : {0}, Communities : {0},
     Accept : {{}}, Reject : {{}, {{AddrFrom4(1)}}}]

\* the maps the user gives Pool.Configure
PeerConfigs == UNION {[ps -> PeerParameters] : ps \in SUBSET {1}}

\* the Sessions of the peer
PeerSessions == {id \in SessIds : id[1] = 1}

\* NewPool with any list rib_ and no peer
PeerInit ==
    /\ MonInit
    /\ DirInit
    /\ arg = <<>>
    /\ res = <<>>
    /\ sessions = [peer \in Peers |-> 0]
    /\ poolRib \in {<<>>, <<1>>}
    /\ pool = IdlePool
    /\ connection = NoConnection
    /\ sess = [id \in SessIds |-> FreeSession]

PeerNext ==
    \/ \E m \in PeerConfigs : PoolConfigure(m)
    \/ \E id \in PeerSessions : SessStore(id)
    \/ \E id \in PeerSessions : SessExit(id)
    \/ \E id \in PeerSessions : SessTimer(id)
    \/ \E id \in PeerSessions : \E how \in {"fail", "v4"} : SessConnect(id, how)
    \/ \E id \in PeerSessions : \E m \in {"OPEN", "closed"} : TryMessage(id, m)
    \/ \E id \in PeerSessions : TryUpdate(id)

SpecPeer == PeerInit /\ [][PeerNext]_vars

(***************************************************************************)
(* A pool made with one peer, and the Session of the peer: the peer        *)
(* accepts or refuses connections, sends any message, closes the           *)
(* connection or stays silent until the hold timer expires; the pool's     *)
(* user sends the RIB again or removes the peer at any moment. The timer   *)
(* of the Session fires in the end, and the select of session, which       *)
(* chooses at random among the cases that are ready, takes it in the end.  *)
(***************************************************************************)

\* NewPool with the peer 1, its task having taken the map of the peers
RetryInit ==
    /\ MonInit
    /\ DirInit
    /\ arg = <<>>
    /\ res = <<>>
    /\ sessions = [peer \in Peers |-> IF peer = 1 THEN 1 ELSE 0]
    /\ poolRib = <<>>
    /\ pool = IdlePool
    /\ connection = NoConnection
    /\ sess = [id \in SessIds |->
                 IF id = <<1, 1>> THEN NewSession(ZeroParameters, <<>>)
                 ELSE FreeSession]

RetryNext ==
    \/ PoolConfigure(<<>>)
    \/ PoolRIB(<<>>)
    \/ \E id \in ThePeer : SessStore(id)
    \/ \E id \in ThePeer : SessExit(id)
    \/ \E id \in ThePeer : SessTimer(id)
    \/ \E id \in ThePeer : \E how \in {"fail", "nolocal", "v4", "v6"} : SessConnect(id, how)
    \/ \E id \in ThePeer : \E m \in Messages : TryMessage(id, m)
    \/ \E id \in ThePeer : TryUpdate(id)
    \/ \E id \in ThePeer : TryHold(id)

RetryFairness == \A id \in ThePeer : WF_vars(SessTimer(id))

SpecRetry == RetryInit /\ [][RetryNext]_vars /\ RetryFairness

(***************************************************************************)
(* The claims.                                                             *)
(***************************************************************************)

\* C1: after a tick of a probe loop, with was the Status read at the tick
\* and the window shifted and the result appended: an instance that was UP
\* is DOWN iff at most 3 of the 5 entries are passes, one that was DOWN is UP
\* iff all 5 are passes, otherwise OK is what it was. Until its first tick a
\* loop's window holds 5 times the Init it was created with.
C1_Hysteresis ==
    \A id \in LoopIds :
        LET l == loops[id]
        IN  /\ l.pc = "wait" /\ l.status.Initialised =>
                  /\ l.was.OK => (~l.status.OK <=> Passed(l.history) <= 3)
                  /\ ~l.was.OK => (l.status.OK <=> Passed(l.history) = 5)
            /\ l.pc = "wait" /\ ~l.status.Initialised =>
                  /\ Len(l.notified) = 1
                  /\ \A n \in 1 .. Window : l.history[n] = l.notified[1]

\* a loop created DOWN has seen five passes in a row and turned UP
C1_Witness ==
    \E id \in LoopIds :
        /\ loops[id].pc = "wait"
        /\ loops[id].was.Initialised
        /\ ~loops[id].was.OK
        /\ loops[id].status.OK

\* C2: the Notify calls made for one probe loop, from the one made at its
\* creation on, alternate: no two consecutive calls carry the same value.
C2_NotifyAlternates ==
    \A id \in LoopIds :
        Len(loops[id].notified) = 2 =>
            loops[id].notified[1] # loops[id].notified[2]

\* a loop has notified DOWN then UP and holds a reconfiguration not yet received
C2_Witness ==
    \E id \in LoopIds :
        /\ loops[id].notified = <<FALSE, TRUE>>
        /\ loops[id].q # <<>>
        /\ loops[id].status.Initialised

C4_OneLoopPerInstance ==
    \A i \in Instances :
        Cardinality({k \in Slots : loops[<<i, k>>].pc # "free"})
            = IF services[i] # 0 THEN 1 ELSE 0

\* C5: Mon.Update with an Instance that is already monitored appends the new
\* Checks to the channel of its loop and changes nothing else of it: the
\* Status, the window, the goroutine and its locals stay, the map keeps the
\* same state, and no other loop of the Instance is started or changed.
C5_UpdateKeepsLoop ==
    [][\A checks \in TargetMaps :
          MonUpdate(checks) =>
              \A i \in DOMAIN checks :
                  services[i] # 0 =>
                      LET id == <<i, services[i]>>
                      IN  /\ services'[i] = services[i]
                          /\ loops'[id].q = Append(loops[id].q, checks[i].Checks)
                          /\ loops'[id].status = loops[id].status
                          /\ loops'[id].history = loops[id].history
                          /\ loops'[id].pc = loops[id].pc
                          /\ loops'[id].c = loops[id].c
                          /\ loops'[id].was = loops[id].was
                          /\ loops'[id].notified = loops[id].notified
                          /\ loops'[id].closed = loops[id].closed
                          /\ \A k \in Slots \ {services[i]} :
                                loops'[<<i, k>>] = loops[<<i, k>>]]_vars

\* an UP loop with 4 passes in its window holds a Checks value sent by Update
C5_Witness ==
    \E id \in LoopIds :
        /\ loops[id].q # <<>>
        /\ loops[id].status.Initialised
        /\ loops[id].status.OK
        /\ Passed(loops[id].history) = 4

\* C6: a Configure that accepts a list hands the monitor, for every
\* destination of every service it kept, a Target whose Init is TRUE iff the
\* VIP of the service is in the configuration applied before and its tuple is
\* not; the loops it starts start with that value; and the list becomes the
\* configuration applied, while a refused list leaves the previous one.
C6_InitPolicy ==
    [][\A e \in Errors :
          err' = e =>
              \A config \in Configs :
                  DirStart(config, e) \/ DirConfigure(config, e) =>
                      IF e # "nil"
                      THEN cfg' = cfg
                      ELSE LET targets == DirTargets(cfg, IndexCfg(config))
                               wanted(i) ==
                                   /\ \E t \in DOMAIN cfg :
                                         t.Address = i.Service.Address
                                   /\ i.Service \notin DOMAIN cfg
                           IN  /\ DOMAIN cfg' =
                                     {TupleOf(config[n]) : n \in 1 .. Len(config)}
                               /\ \A t \in DOMAIN cfg' :
                                     \A n \in 1 .. Len(cfg'[t].Destinations) :
                                        InstanceOf(t, cfg'[t].Destinations[n])
                                            \in DOMAIN targets
                               /\ \A i \in DOMAIN targets :
                                     /\ targets[i].Init = wanted(i)
                                     /\ services[i] = 0 =>
                                           LET l == loops'[<<i, services'[i]>>]
                                           IN  /\ services'[i] # 0
                                               /\ l.status.OK = wanted(i)
                                               /\ l.notified = <<wanted(i)>>]_vars

\* two services of VIP 1 are configured and the destination of one of them,
\* added later than the VIP, was started UP
C6_Witness ==
    /\ Cardinality({t \in DOMAIN cfg : t.Address = 1}) = 2
    /\ \E i \in Monitored :
          /\ i.Service.Address = 1
          /\ loops[<<i, services[i]>>].status.OK
          /\ ~loops[<<i, services[i]>>].status.Initialised

\* C7: a Director.Configure that returns an error leaves the configuration,
\* the monitor's map, every probe loop and its channel, the monitor's and the
\* Director's signal channels and the list last given to Balancer.Configure
\* as they were: it calls neither Mon.Update nor Balancer.Configure.
C7_ErrorKeepsState ==
    [][\A e \in Errors \ {"nil"} :
          err' = e =>
              \A config \in Configs :
                  DirConfigure(config, e) =>
                      UNCHANGED <<cfg, services, loops, monC, dirC, balanced,
                                  bg, die>>]_vars

\* a running Director with a monitored Instance and no signal pending on
\* either channel has refused a list
C7_Witness ==
    /\ bg = "run"
    /\ err \notin {"none", "nil"}
    /\ Monitored # {}
    /\ monC = 0
    /\ dirC = 0

\* C8: Director.Configure (also when called by Start) returns an error for
\* every list in which two services have the same tuple.
C8_DuplicatesRejected ==
    [][\A config \in Configs, e \in Errors :
          /\ DirStart(config, e) \/ DirConfigure(config, e)
          /\ \E n, m \in 1 .. Len(config) :
                n # m /\ TupleOf(config[n]) = TupleOf(config[m])
          => e # "nil"]_vars

\* C9: HealthyVIPs(services) is a subset of AllVIPs(services), and a VIP of
\* the list is in HealthyVIPs(services) iff every service of the list on
\* that VIP is Up, in whatever order the services come.
C9_HealthyVIPs ==
    res # <<>> =>
        /\ res[1].healthy \subseteq res[1].all
        /\ res[1].all = {arg[n].Address : n \in 1 .. Len(arg)}
        /\ \A v \in res[1].all :
              v \in res[1].healthy <=>
                  \A n \in 1 .. Len(arg) : arg[n].Address = v => arg[n].Up

\* HealthyVIPs has answered for a list whose VIP 1 is Up, then not Up, then
\* Up again, and whose VIP 1 is therefore not healthy
C9_Witness ==
    /\ res # <<>>
    /\ Len(arg) = 3
    /\ \A n \in 1 .. 3 : arg[n].Address = 1
    /\ arg[1].Up /\ ~arg[2].Up /\ arg[3].Up
    /\ res[1].healthy = {}

\* C10: for every service Director.Status returns, Up is TRUE iff the number
\* of its destinations that are not Disabled, have Status.OK and a Weight
\* above 0 is at least Required, for any number of destinations.
C10_UpIffEnoughHealthy ==
    res # <<>> =>
        \A k \in 1 .. Len(res[1]) :
            LET ds == res[1][k].Destinations
                healthy == {n \in 1 .. Len(ds) :
                               ~ds[n].Disabled /\ ds[n].Status.OK /\ ds[n].Weight > 0}
            IN  res[1][k].Up <=> Cardinality(healthy) >= res[1][k].Required

\* the OK values the list last given to Balancer.Configure shows for Instance i
ShownOK(i) ==
    UNION {{balanced[n].Destinations[k].Status.OK :
               k \in {j \in 1 .. Len(balanced[n].Destinations) :
                         InstanceOf(i.Service, balanced[n].Destinations[j]) = i}} :
           n \in {m \in 1 .. Len(balanced) : TupleOf(balanced[m]) = i.Service}}

\* the state of monitored Instance i is not the one the Balancer was given
Unreported(i) ==
    /\ services[i] # 0
    /\ ShownOK(i) # {loops[<<i, services[i]>>].status.OK}

\* a signal of the monitor is on its way to Director.update
SignalPending ==
    \/ \E id \in LoopIds : loops[id].pc = "signal"
    \/ monC = 1
    \/ bg = "woken"

\* C11: in a running Director the list given to Balancer.Configure is sorted
\* by (Address, Port, Protocol); whenever the OK of a monitored Instance is
\* not the one the Balancer was last given, a signal is on its way (written
\* status not yet signalled, signal buffered in Mon.C, or background task
\* woken), and a Balancer.Configure follows that shows the state every
\* monitored Instance has by then.
C11_ChangeReported ==
    /\ [](/\ \A n \in 1 .. Len(balanced) - 1 : Less(balanced[n], balanced[n + 1])
          /\ (\E i \in Instances : Unreported(i)) => SignalPending)
    /\ (\E i \in Instances : Unreported(i)) ~> (\A i \in Instances : ~Unreported(i))

\* an Instance turned UP while the signal of an earlier change of status is
\* still buffered in Mon.C: its own signal will be dropped
C11_Witness ==
    \E id \in LoopIds :
        /\ loops[id].pc = "signal"
        /\ loops[id].status.OK
        /\ monC = 1
        /\ Unreported(id[1])
        /\ Len(balanced) = 2

\* the positions of dest whose address C18 says the filter keeps
Kept(p, ipv6, dest) ==
    {n \in DOMAIN dest :
        /\ p.Multiprotocol \/ dest[n].fam = (IF ipv6 THEN 6 ELSE 4)
        /\ \/ \E x \in p.Accept : dest[n] \in x
           \/ \A x \in p.Reject : dest[n] \notin x}

\* C18: Parameters.filter returns, in the order of its input, exactly the
\* addresses a of the list such that Multiprotocol is set or the family of
\* a is that of the TCP session, and a lies in some Accept prefix or in no
\* Reject prefix.
C18_FilterKeeps ==
    res # <<>> =>
        LET ks == Kept(arg.p, arg.ipv6, arg.dest)
        IN  /\ Len(res[1]) = Cardinality(ks)
            /\ \A n \in ks :
                  res[1][Cardinality({k \in ks : k <= n})] = arg.dest[n]

C18_Witness ==
    /\ res # <<>>
    /\ Len(res[1]) = 2
    /\ Len(arg.dest) = 3
    /\ \E a \in Range(res[1]) :
          /\ \E x \in arg.p.Accept : a \in x
          /\ \E x \in arg.p.Reject : a \in x

\* the addresses a body advertises and those it withdraws
Advertised(f) == f.advertise \cup f.advertise6

Withdrawn(f) == f.withdrawn \cup f.withdrawn6

\* C17: for an NLRI map that is not empty update.updates returns nothing,
\* or bodies of fewer than 4000 bytes each in which every address of the
\* map is in exactly one body, advertised or withdrawn as the map says, and
\* no other address is in any body.
C17_Fragments ==
    res # <<>> =>
        \/ res[1] = <<>>
        \/ /\ \A n \in DOMAIN res[1] :
                 /\ res[1][n].len < 4000
                 /\ Advertised(res[1][n]) \cup Withdrawn(res[1][n]) \subseteq DOMAIN arg.m
           /\ \A k \in DOMAIN arg.m :
                 \E n \in DOMAIN res[1] :
                    /\ k \in Advertised(res[1][n]) <=> arg.m[k]
                    /\ k \in Withdrawn(res[1][n]) <=> ~arg.m[k]
                    /\ \A j \in DOMAIN res[1] \ {n} :
                          k \notin Advertised(res[1][j]) \cup Withdrawn(res[1][j])

C17_Witness ==
    /\ res # <<>>
    /\ Len(res[1]) >= 3
    /\ \E k \in DOMAIN arg.m : Is6(k) /\ ~arg.m[k]
    /\ \E k \in DOMAIN arg.m : Is4(k) /\ arg.m[k]

\* C16: whenever a Session is ESTABLISHED and its channel is empty, its
\* adj-RIB-out is the filter of the RIB its owner sent last under the
\* Parameters its owner sent last.
C16_Converges ==
    \A id \in SessIds :
        (sess[id].pc = "try" /\ sess[id].State = "ESTABLISHED" /\ sess[id].c = <<>>) =>
            sess[id].adjRIBOut = Range(Filter(sess[id].p, sess[id].ipv6, sess[id].rib))

\* the step of try that takes an _update from the channel while ESTABLISHED
ReceivedUpdate(id) ==
    /\ sess[id].pc = "try"
    /\ sess[id].State = "ESTABLISHED"
    /\ sess[id].c # <<>>
    /\ sess'[id].c = Tail(sess[id].c)

\* LocalPref, MED and Communities of p and q are the same
SameAttributes(p, q) ==
    /\ p.LocalPref = q.LocalPref
    /\ p.MED = q.MED
    /\ p.Communities = q.Communities

\* the filtered RIB of the _update r for the Session s
Filtered(s, r) == Range(Filter(r.Parameters, s.ipv6, r.RIB))

\* C14: when an ESTABLISHED Session takes an update whose LocalPref, MED
\* and Communities are those of the previous one, the NLRI withdraws
\* exactly the addresses of the adj-RIB-out that are not in the new filtered
\* RIB and advertises exactly those of the new filtered RIB that were not in
\* the adj-RIB-out; if the two sets are equal the NLRI is empty and no
\* UPDATE is queued; the UPDATEs queued carry nothing but this NLRI.
C14_ExactDiff ==
    [][\A id \in SessIds :
          (ReceivedUpdate(id)
             /\ SameAttributes(sess[id].parameters, Head(sess[id].c).Parameters)) =>
              LET prev == sess[id].adjRIBOut
                  new == Filtered(sess[id], Head(sess[id].c))
                  n == sess'[id].nlri
                  out == sess'[id].queued
              IN  /\ {k \in DOMAIN n : ~n[k]} = prev \ new
                  /\ {k \in DOMAIN n : n[k]} = new \ prev
                  /\ prev = new =>
                        (DOMAIN n = {} /\ out = <<>> /\ sess'[id].pc = "try")
                  /\ \A j \in DOMAIN out :
                        /\ Withdrawn(out[j]) \subseteq prev \ new
                        /\ Advertised(out[j]) \subseteq new \ prev
                  /\ sess'[id].pc = "try" =>
                        /\ sess'[id].adjRIBOut = new
                        /\ UNION {Withdrawn(out[j]) : j \in DOMAIN out} = prev \ new
                        /\ UNION {Advertised(out[j]) : j \in DOMAIN out} = new \ prev]_vars

\* an ESTABLISHED Session has queued UPDATEs that withdraw an address of its
\* adj-RIB-out and keep another, for an update with the same attributes
C14_Witness ==
    \E id \in SessIds :
        /\ sess[id].pc = "try"
        /\ sess[id].State = "ESTABLISHED"
        /\ ~sess[id].force
        /\ sess[id].queued # <<>>
        /\ sess[id].prev \cap sess[id].adjRIBOut # {}
        /\ \E k \in DOMAIN sess[id].nlri : ~sess[id].nlri[k]

\* C15 as the specification has it: when an ESTABLISHED Session takes an
\* update whose LocalPref, MED or Communities differ from the previous ones,
\* every address of the new filtered RIB is advertised in the UPDATEs queued
\* for it.
C15_ForceAdvertises ==
    [][\A id \in SessIds :
          (ReceivedUpdate(id)
             /\ ~SameAttributes(sess[id].parameters, Head(sess[id].c).Parameters)) =>
              \A a \in Filtered(sess[id], Head(sess[id].c)) :
                  \E j \in DOMAIN sess'[id].queued :
                      a \in Advertised(sess'[id].queued[j])]_vars

\* C15: when an ESTABLISHED Session takes an update whose LocalPref, MED or
\* Communities differ from the previous ones, every address of the new
\* filtered RIB is advertised in the UPDATEs queued for it, unless an
\* address to advertise or to withdraw does not fit alone, with the new
\* attributes, in an UPDATE body of fewer than 4000 bytes: then no UPDATE is
\* queued, CEASE/OUT_OF_RESOURCES is sent and the attempt ends.
C15_ForceAdvertisesOrCease ==
    [][\A id \in SessIds :
          (ReceivedUpdate(id)
             /\ ~SameAttributes(sess[id].parameters, Head(sess[id].c).Parameters)) =>
              LET r == Head(sess[id].c)
                  new == Filtered(sess[id], r)
                  out == sess'[id].queued
              IN  IF \E a \in new \cup sess[id].adjRIBOut :
                        MessageLen(Template(r.Parameters), [k \in {a} |-> a \in new]) >= 4000
                  THEN /\ out = <<>>
                       /\ sess'[id].pc = "wait"
                       /\ sess'[id].State = "IDLE"
                       /\ sess'[id].LastError = "Sent notification: CEASE, OUT_OF_RESOURCES"
                  ELSE /\ sess'[id].pc = "try"
                       /\ \A a \in new :
                             \E j \in DOMAIN out : a \in Advertised(out[j])]_vars

\* an ESTABLISHED Session has queued, for an update with other attributes,
\* UPDATEs that advertise an address that was in its adj-RIB-out already
C15_Witness ==
    \E id \in SessIds :
        /\ sess[id].pc = "try"
        /\ sess[id].State = "ESTABLISHED"
        /\ sess[id].force
        /\ \E a \in sess[id].prev \cap sess[id].adjRIBOut :
              \E j \in DOMAIN sess[id].queued :
                  a \in Advertised(sess[id].queued[j])

\* C12: at any time at most one TCP connection to a peer is open.
C12_OneConnection ==
    \A peer \in Peers :
        Cardinality({k \in SessSlots : sess[<<peer, k>>].conn}) <= 1

\* C20: every address given to Pool.RIB, IPv4 or IPv6, is in the RIB of the
\* _update the pool sends to each of its Sessions.
C20_RIBDelivered ==
    [][\A r \in PoolRibs :
          PoolRIB(r) =>
              \A peer \in Peers :
                  sessions[peer] # 0 =>
                      LET c == sess'[<<peer, sessions[peer]>>].c
                      IN  Range(r) \subseteq Range(c[Len(c)].RIB)]_vars

\* C19: after the pool's task has taken Configure(m) the peers with a
\* Session in its map are the keys of m: a peer of m that had none has a
\* new Session started with the pool's RIB and its Parameters, a peer that
\* had one keeps it, unchanged but for the Parameters and the _update sent
\* to it, and the Session of a peer that m leaves out is closed and out of
\* the map; no other Session changes.
C19_ConfigureSessions ==
    [][\A m \in PeerConfigs :
          PoolConfigure(m) =>
              /\ {peer \in Peers : sessions'[peer] # 0} = DOMAIN m
              /\ \A peer \in Peers :
                    LET old == <<peer, sessions[peer]>>
                        new == <<peer, sessions'[peer]>>
                    IN  /\ (peer \in DOMAIN m /\ sessions[peer] = 0) =>
                              /\ sess[new].pc = "free"
                              /\ sess'[new].pc = "wait"
                              /\ sess'[new].p = m[peer]
                              /\ sess'[new].rib = ToAddr(poolRib)
                              /\ sess'[new].update = NewUpdate(m[peer], ToAddr(poolRib))
                              /\ sess'[new].c = <<>>
                              /\ ~sess'[new].closed
                              /\ ~sess'[new].conn
                        /\ (peer \in DOMAIN m /\ sessions[peer] # 0) =>
                              /\ new = old
                              /\ sess'[old] =
                                    [sess[old] EXCEPT
                                        !.p = m[peer],
                                        !.c = Append(@, NewUpdate(m[peer], sess[old].rib))]
                        /\ (peer \notin DOMAIN m /\ sessions[peer] # 0) =>
                              sess'[old] = [sess[old] EXCEPT !.closed = TRUE]
                        /\ \A k \in SessSlots \ {sessions[peer], sessions'[peer]} :
                              sess'[<<peer, k>>] = sess[<<peer, k>>]]_vars

\* the peer has been removed and added again: its first Session is closed,
\* its second one is ESTABLISHED and has been sent new Parameters
C19_Witness ==
    /\ sessions[1] = 2
    /\ sess[<<1, 1>>].closed
    /\ sess[<<1, 2>>].State = "ESTABLISHED"
    /\ sess[<<1, 2>>].c # <<>>
    /\ sess[<<1, 2>>].p # sess[<<1, 2>>].update.Parameters

\* what session stores in Status.LastError when try returns
Reasons ==
    {"CONNECTION_FAILED", "INVALID_LOCALIP", "REMOTE_SHUTDOWN",
     "Received notification",
     "Sent notification: FSM_ERROR",
     "Sent notification: OPEN_MESSAGE_ERROR",
     "Sent notification: MESSAGE_HEADER_ERROR",
     "Sent notification: HOLD_TIMER_EXPIRED",
     "Sent notification: CEASE, OUT_OF_RESOURCES",
     "Sent notification: CEASE, ADMINISTRATIVE_SHUTDOWN"}

\* C13: when an attempt of a Session ends, the reason is in
\* Status.LastError, the state is IDLE and the connection is closed; and a
\* Session that waits in the select of session, before its first attempt or
\* after an attempt that ended, starts an attempt in the end unless it is
\* closed.
C13_Retries ==
    /\ [][\A id \in SessIds :
            (sess[id].pc \in {"dial", "try"} /\ sess'[id].pc = "wait") =>
                /\ sess'[id].LastError \in Reasons
                /\ sess'[id].State = "IDLE"
                /\ ~sess'[id].conn]_vars
    /\ (sess[<<1, 1>>].pc = "wait" /\ ~sess[<<1, 1>>].closed)
          ~> (sess[<<1, 1>>].pc = "dial" \/ sess[<<1, 1>>].closed)

\* the Session starts an attempt after one that ended when the hold timer
\* expired
C13_Witness ==
    /\ sess[<<1, 1>>].pc = "dial"
    /\ sess[<<1, 1>>].LastError = "Sent notification: HOLD_TIMER_EXPIRED"
    /\ ~sess[<<1, 1>>].closed

\* the window after the results T,T,T,T,F
WindowTTTTF == [n \in 1 .. Window |-> n < Window]

\* C24 as the specification has it: a DOWN instance whose window holds the
\* results T,T,T,T,F becomes UP at the next result T, and Notify(instance,
\* true) is called.
C24_SixthResultUp ==
    [][\A id \in LoopIds :
          (/\ loops[id].pc = "probe"
           /\ loops'[id].pc = "wait"
           /\ ~loops[id].was.OK
           /\ loops[id].history = WindowTTTTF
           /\ loops'[id].history[Window]) =>
              /\ loops'[id].status.OK
              /\ loops'[id].notified = Notify(loops[id].notified, TRUE)]_vars

\* C24: a DOWN instance whose window holds F,T,T,T,T is still DOWN after the
\* result F; the next result T leaves four passes in the window (T,T,T,F,T),
\* the instance stays DOWN and Notify is not called; a DOWN instance becomes
\* UP exactly at the result that makes five passes in the window.
C24_FifthPassInARowUp ==
    [][\A id \in LoopIds :
          (/\ loops[id].pc = "probe"
           /\ loops'[id].pc = "wait"
           /\ ~loops[id].was.OK) =>
              /\ (loops[id].history = [n \in 1 .. Window |-> n > 1]
                    /\ ~loops'[id].history[Window]) =>
                    /\ loops'[id].history = WindowTTTTF
                    /\ ~loops'[id].status.OK
              /\ (loops[id].history = WindowTTTTF /\ loops'[id].history[Window]) =>
                    /\ Passed(loops'[id].history) = 4
                    /\ ~loops'[id].status.OK
                    /\ loops'[id].notified = loops[id].notified
              /\ loops'[id].status.OK <=> Passed(loops'[id].history) = 5
              /\ (loops'[id].status.OK /\ loops[id].was.Initialised) =>
                    loops'[id].notified = Notify(loops[id].notified, TRUE)]_vars

\* a loop created DOWN that has never been UP holds T,T,T,F,T and is DOWN
C24_Witness ==
    \E id \in LoopIds :
        /\ loops[id].pc = "wait"
        /\ loops[id].status.Initialised
        /\ ~loops[id].status.OK
        /\ loops[id].notified = <<FALSE>>
        /\ loops[id].history = Shift(WindowTTTTF, TRUE)

\* C27: the probe loop of an Instance that Mon.Update has removed calls
\* Notify no more and sends no signal on Mon.C, also when it ends a probe
\* that was in flight at the removal.
C27_RemovedLoopSilent ==
    [][\A id \in LoopIds :
          (/\ loops[id].closed
           /\ loops[id].pc = "probe"
           /\ loops'[id].pc = "wait") =>
              /\ loops'[id].notified = loops[id].notified
              /\ monC' = monC]_vars

(***************************************************************************)
(* The Director's mutex. Each caller of the Director takes d.mutex in one  *)
(* step and runs what the mutex guards in the next; Director.Status, which *)
(* reads the monitor's map for every destination, is one of the callers.   *)
(* The background task is followed from its select to its return.          *)
(***************************************************************************)

\* the callers that lock d.mutex
Lockers == {"Start", "Configure", "Trigger", "Status", "background"}

\* d.mutex.Lock() by a caller: Start, before the background task exists, in
\* its d.Configure(cfg); a user in Configure, Trigger or Status; the
\* background task after case <-d.mon.C, or in the d.Configure(nil) of
\* case <-d.die
MutexLock(who) ==
    /\ mutex = "free"
    /\ CASE who = "Start" -> bg = "off" /\ err = "none"
         [] who = "background" -> bg = "woken" \/ (bg = "run" /\ die)
         [] OTHER -> bg \in {"run", "woken", "dying"}
    /\ mutex' = who
    /\ UNCHANGED <<services, loops, monC, cfg, err, bg, die, dirC, balanced>>

\* Director.Start: the rest of d.Configure(cfg), then go d.background()
LockedStart(config) ==
    /\ mutex = "Start"
    /\ DirStart(config, "nil")
    /\ mutex' = "free"

\* Director.Configure: its body and the deferred Unlock
LockedConfigure(config) ==
    /\ mutex = "Configure"
    /\ Configure(config, "nil")
    /\ mutex' = "free"
    /\ UNCHANGED <<bg, die>>

\* Director.Trigger: d.update() and the deferred Unlock
LockedTrigger ==
    /\ mutex = "Trigger"
    /\ DirUpdate
    /\ mutex' = "free"
    /\ UNCHANGED <<services, loops, monC, cfg, err, bg, die>>

\* Director.Status: d.status(), which reads m.services in Mon.Status for
\* every destination of d.cfg, and the deferred Unlock
LockedStatus ==
    /\ mutex = "Status"
    /\ mutex' = "free"
    /\ UNCHANGED <<services, loops, monC, cfg, err, bg, die, dirC, balanced>>

\* Director.background: case <-d.mon.C, taken outside d.Configure(nil)
LockBgTake ==
    /\ mutex # "background"
    /\ BgTake
    /\ UNCHANGED mutex

\* Director.background: d.update() and d.mutex.Unlock()
LockedBgUpdate ==
    /\ mutex = "background"
    /\ BgUpdate
    /\ mutex' = "free"

\* Director.background: the rest of d.Configure(nil)
LockedBgDie ==
    /\ mutex = "background"
    /\ BgDie
    /\ mutex' = "free"

\* Director.background: d.mon.Update(nil); d.inform(); return. No Lock.
LockBgExit ==
    /\ BgExit
    /\ UNCHANGED mutex

LockNext ==
    \/ \E who \in Lockers : MutexLock(who) /\ UNCHANGED restVars
    \/ \E config \in RunConfigs : LockedStart(config) /\ UNCHANGED restVars
    \/ \E config \in RunConfigs : LockedConfigure(config) /\ UNCHANGED restVars
    \/ LockedTrigger /\ UNCHANGED restVars
    \/ LockedStatus /\ UNCHANGED restVars
    \/ DirStop /\ UNCHANGED <<mutex, restVars>>
    \/ LockBgTake /\ UNCHANGED restVars
    \/ LockedBgUpdate /\ UNCHANGED restVars
    \/ LockedBgDie /\ UNCHANGED restVars
    \/ LockBgExit /\ UNCHANGED restVars
    \/ \E id \in LoopIds : LoopRecv(id) /\ UNCHANGED <<dirVars, restVars>>

SpecLock == MonOnlyInit /\ [][LockNext]_vars

\* C28: every step in which the Director calls Mon.Update or hands a list
\* to Balancer.Configure (a step that changes the monitor's map or the
\* balanced list, and the Update of the Stop path) is taken by the holder of
\* d.mutex, which unlocks at the end of it: never with the mutex free and
\* never while Director.Status holds it.
C28_UnderMutex ==
    [][(\/ services' # services
        \/ balanced' # balanced
        \/ bg = "dying" /\ bg' = "done") =>
            /\ mutex \notin {"free", "Status"}
            /\ mutex' = "free"]_vars

(***************************************************************************)
(* The pool's task and the callers of Pool.Status, Pool.Configure and      *)
(* Pool.RIB, one step at a time: a caller waits on the channel of the      *)
(* task, the task takes one case of its select and sends to the Sessions   *)
(* one after the other, waiting where a channel is full. The peer is       *)
(* unreachable, or connects and then is silent, closes, or sends any       *)
(* message.                                                                *)
(***************************************************************************)

\* the Parameters the callers give the peer
CallParameters ==
    [ASNumber : {0}, HoldTime : {0}, SourceIP : {Nul4}, NextHop4 : {Nul4},
     NextHop6 : {0},
     Multiprotocol : {FALSE}, LocalPref : {0}, MED : {0}, Communities : {0},
     Accept : {{}}, Reject : {{}}]

\* the maps the callers give Pool.Configure
CallConfigs == [{1} -> CallParameters]

\* the lists the callers give Pool.RIB
CallRibs == {<<AddrFrom4(1)>>}

\* what the peer sends when it is not silent
CallMessages == {"closed", "KEEPALIVE", "OPEN"}

CallsNext ==
    \/ \E f \in PoolCalls : PoolCall(f)
    \/ TaskStatus
    \/ \E r \in CallRibs : TaskRIB(r)
    \/ TaskSessionRIB
    \/ \E m \in CallConfigs : TaskConfigure(m)
    \/ TaskConfigurePeer
    \/ TaskConfigureEnd
    \/ \E id \in ThePeer : SessStore(id)
    \/ \E id \in ThePeer : SessTimer(id)
    \/ \E id \in ThePeer : \E how \in {"fail", "v4"} : SessConnect(id, how)
    \/ \E id \in ThePeer : \E m \in CallMessages : TryMessage(id, m)
    \/ \E id \in ThePeer : TryUpdate(id)
    \/ \E id \in ThePeer : TryHold(id)

\* The select of the pool's task picks at random among the ready cases, so
\* a caller that waits on a channel is served in the end; the task goes on
\* where it can. The dial of newConnection ends (its timeout is 10 s), and
\* the selects of session and of try, which pick at random too, take the
\* channel of the Session in the end when an _update waits in it.
CallsFairness ==
    /\ SF_vars(TaskStatus)
    /\ SF_vars(\E r \in CallRibs : TaskRIB(r))
    /\ SF_vars(\E m \in CallConfigs : TaskConfigure(m))
    /\ WF_vars(TaskSessionRIB)
    /\ WF_vars(TaskConfigurePeer)
    /\ WF_vars(TaskConfigureEnd)
    /\ \A id \in ThePeer :
          /\ WF_vars(\E how \in {"fail", "v4"} : SessConnect(id, how))
          /\ SF_vars(SessStore(id) \/ TryUpdate(id))

SpecCalls == MonOnlyInit /\ [][CallsNext]_vars /\ CallsFairness

\* C21: a call of Pool.Status, Pool.Configure or Pool.RIB on a pool that is
\* not closed returns in the end, whatever the peer does and however many
\* _updates wait in the channels of the Sessions.
C21_CallsReturn ==
    \A f \in PoolCalls :
        (pool.calls[f] = "blocked") ~> (pool.calls[f] = "idle")

\* a caller of Pool.RIB waits while the pool's task, in session.Configure,
\* waits on the full channel of a Session that is dialling
C21_Witness ==
    /\ pool.calls["RIB"] = "blocked"
    /\ pool.pc = "configure"
    /\ pool.todo = <<1>>
    /\ sessions[1] # 0
    /\ Len(sess[<<1, sessions[1]>>].c) = MaxQueued
    /\ sess[<<1, sessions[1]>>].pc = "dial"

(***************************************************************************)
(* The UPDATE a Session sends: try, with any Parameters of the peer, the   *)
(* OPEN of a peer of the same AS or of another, and any NLRI map.          *)
(***************************************************************************)

\* the AS numbers of the speaker and of its peer
ASNumbers == {65000, 65001}

\* the Parameters of the peer: Communities is the length of the list
AttrParameters ==
    [ASNumber : ASNumbers, NextHop4 : {1}, NextHop6 : {1, 2},
     Multiprotocol : BOOLEAN, LocalPref : {0, 200}, MED : {0, 5},
     Communities : {0, 1}]

\* what the OPEN of the peer announces
AttrOpens == [asNumber : ASNumbers]

AttrArgs == [p : AttrParameters, o : AttrOpens, m : NlriMaps]

AttrInit ==
    /\ MonInit
    /\ DirInit
    /\ NoPool
    /\ arg \in AttrArgs
    /\ res = <<>>

AttrCall ==
    /\ res = <<>>
    /\ res' = <<TryUpdateOf(arg.p, arg.o, arg.m)>>
    /\ UNCHANGED <<arg, monVars, dirVars, bgpVars>>

SpecAttr == AttrInit /\ [][AttrCall]_vars

\* the attributes of the type t in the list
OfType(attributes, t) == {a \in Range(attributes) : a.type = t}

\* C22: an UPDATE with path attributes for a peer whose OPEN announced
\* another AS number than the local one has an AS_PATH of one AS_SEQUENCE
\* with the local AS number only; for a peer of the local AS the AS_PATH is
\* empty.
C22_AsPath ==
    res # <<>> /\ res[1].attributes # <<>> =>
        \E a \in OfType(res[1].attributes, "AS_PATH") :
            /\ OfType(res[1].attributes, "AS_PATH") = {a}
            /\ a.value = IF arg.o.asNumber # arg.p.ASNumber
                         THEN <<"AS_SEQUENCE", 1, arg.p.ASNumber>>
                         ELSE <<>>

\* C23: an UPDATE with path attributes on an iBGP session has a LOCAL_PREF
\* attribute, of 100 when the LocalPref of the Parameters is 0; an UPDATE on
\* an eBGP session has none.
C23_LocalPref ==
    res # <<>> /\ res[1].attributes # <<>> =>
        IF arg.o.asNumber = arg.p.ASNumber
        THEN OfType(res[1].attributes, "LOCAL_PREF") =
                {[type |-> "LOCAL_PREF",
                  value |-> <<IF arg.p.LocalPref = 0 THEN 100
                              ELSE arg.p.LocalPref>>]}
        ELSE OfType(res[1].attributes, "LOCAL_PREF") = {}

\* C26: with Multiprotocol set and a map that only advertises IPv6
\* addresses, the UPDATE has an MP_REACH_NLRI with AFI 2, SAFI 1, a next hop
\* of 16 bytes that is NextHop6, no SNPA and one /128 for each address, and
\* it has no NEXT_HOP attribute and no IPv4 NLRI.
C26_OnlyIPv6 ==
    /\ res # <<>>
    /\ arg.p.Multiprotocol
    /\ \A k \in DOMAIN arg.m : Is6(k) /\ arg.m[k]
    => /\ OfType(res[1].attributes, "MP_REACH_NLRI") =
             {[type |-> "MP_REACH_NLRI",
               value |-> [afi |-> 2, safi |-> 1, nhlen |-> 16,
                          nexthop |-> arg.p.NextHop6, snpas |-> 0,
                          nlri |-> {<<128, k>> : k \in DOMAIN arg.m}]]}
       /\ OfType(res[1].attributes, "NEXT_HOP") = {}
       /\ res[1].nlri = {}

(***************************************************************************)
(* The OPEN of this speaker, encoded by open.message, parsed back by       *)
(* open.parse and encoded again.                                           *)
(***************************************************************************)

\* the OPENs of the speaker: try leaves version 0 in the struct it queues,
\* and open.message writes 4 on the wire whatever it is
OpenArgs ==
    [asNumber : {1, 255, 65001}, holdTime : {3, 30, 300},
     routerID : {<<10, 0, 0, 1>>, <<192, 168, 0, 255>>},
     multiprotocol : BOOLEAN, version : {0, 4}, op : {<<>>}]

OpenInit ==
    /\ MonInit
    /\ DirInit
    /\ NoPool
    /\ arg \in OpenArgs
    /\ res = <<>>

\* o.message(), then parse of these bytes, then message() of what was parsed
OpenCall ==
    /\ res = <<>>
    /\ res' = <<[bytes |-> OpenMessage(arg),
                 parsed |-> OpenParse(OpenMessage(arg)),
                 again |-> OpenMessage(OpenParse(OpenMessage(arg)))]>>
    /\ UNCHANGED <<arg, monVars, dirVars, bgpVars>>

SpecOpen == OpenInit /\ [][OpenCall]_vars

\* C25: the bytes of open.message parsed by open.parse give an open with
\* the same version, AS number, hold time, router ID and multiprotocol, and
\* encoding that open again gives the same bytes, with multiprotocol set or
\* not; with multiprotocol set the framed message has 29 + 16 bytes.
C25_OpenRoundTrip ==
    res # <<>> =>
        /\ arg.version = 4 => res[1].parsed.version = arg.version
        /\ res[1].parsed.asNumber = arg.asNumber
        /\ res[1].parsed.holdTime = arg.holdTime
        /\ res[1].parsed.routerID = arg.routerID
        /\ res[1].parsed.multiprotocol = arg.multiprotocol
        /\ res[1].again = res[1].bytes
        /\ arg.multiprotocol => Framed(res[1].bytes) = 29 + 16

(***************************************************************************)
(* The state machine of one Session, every write of Status.State a step of *)
(* its own: the pool's user configures the peer and gives RIBs, the peer   *)
(* refuses the connection or accepts it, and the reader of the connection  *)
(* offers any message, an OPEN with any version, hold time and router ID   *)
(* among them.                                                             *)
(***************************************************************************)

\* the OPENs of the peer
FsmOpens ==
    [type : {"OPEN"}, version : {3, 4}, holdTime : {2, 3},
     routerID : {Routerid, <<10, 0, 0, 2>>}]

\* what the reader may offer on conn.C ("closed": conn.C is closed)
FsmMessages ==
    {Msg(t) : t \in {"closed", "NOTIFICATION", "KEEPALIVE", "UPDATE", "OTHER"}}
    \cup FsmOpens

FsmNext ==
    \/ \E m \in CallConfigs : PoolConfigure(m)
    \/ \E r \in CallRibs : PoolRIB(r)
    \/ \E id \in ThePeer : SessStore(id)
    \/ \E id \in ThePeer : SessTimer(id)
    \/ \E id \in ThePeer : \E how \in {"fail", "nolocal", "v4", "v6"} : FsmDial(id, how)
    \/ \E id \in ThePeer : FsmOpenSent(id)
    \/ \E id \in ThePeer : FsmTime(id)
    \/ \E id \in ThePeer : \E m \in FsmMessages : PeerSends(id, m)
    \/ \E id \in ThePeer : FsmMessage(id)
    \/ \E id \in ThePeer : FsmAdvertise(id)
    \/ \E id \in ThePeer : FsmUpdate(id)
    \/ \E id \in ThePeer : FsmKeepalive(id)
    \/ \E id \in ThePeer : FsmHold(id)

SpecFsm == MonOnlyInit /\ [][FsmNext]_vars

\* the steps of Status.State within an attempt
FsmSteps ==
    {<<"IDLE", "ACTIVE">>, <<"ACTIVE", "CONNECT">>, <<"CONNECT", "OPEN_SENT">>,
     <<"OPEN_SENT", "ESTABLISHED">>}

\* C29: Status.State of a Session changes by one step along IDLE, ACTIVE,
\* CONNECT, OPEN_SENT, ESTABLISHED, or to IDLE when the attempt ends; so
\* ESTABLISHED is entered from OPEN_SENT only and left for IDLE only, once
\* in an attempt, and OPEN_CONFIRM is never entered.
C29_StateSteps ==
    [][\A id \in SessIds :
          sess'[id].State # sess[id].State =>
              \/ sess'[id].State = "IDLE"
              \/ <<sess[id].State, sess'[id].State>> \in FsmSteps]_vars

\* a Session is ESTABLISHED and has queued an UPDATE
C29_Witness ==
    \E id \in SessIds :
        /\ sess[id].State = "ESTABLISHED"
        /\ Queued("UPDATE", "", "") \in sess[id].sent

\* the subcodes of the checks the OPEN o fails
FailedChecks(o) ==
    {sub \in {"UNSUPPORTED_VERSION_NUMBER", "UNNACEPTABLE_HOLD_TIME", "BAD_BGP_ID"} :
        \/ sub = "UNSUPPORTED_VERSION_NUMBER" /\ o.version # 4
        \/ sub = "UNNACEPTABLE_HOLD_TIME" /\ o.holdTime < 3
        \/ sub = "BAD_BGP_ID" /\ o.routerID = Routerid}

\* the step in which try, in OPEN_SENT, takes an OPEN from conn.C: the
\* message is gone, and try has not returned for its hold timer or for the
\* closed channel of the Session
OpenTaken(s, t) ==
    /\ s.pc = "try"
    /\ s.State = "OPEN_SENT"
    /\ s.rx.type = "OPEN"
    /\ t.rx = NoMsg
    /\ t.LastError \notin {"Sent notification: HOLD_TIMER_EXPIRED, 0",
                           "Sent notification: CEASE, ADMINISTRATIVE_SHUTDOWN"}

\* C30: a Session becomes ESTABLISHED only in OPEN_SENT, on an OPEN with
\* version 4, a hold time of 3 or more and a router ID that is not its own;
\* on an OPEN that fails a check it queues the NOTIFICATION
\* OPEN_MESSAGE_ERROR with the subcode of a failed check, and nothing else,
\* and the attempt ends with no UPDATE queued.
C30_OpenChecks ==
    [][\A id \in SessIds :
          LET s == sess[id]
              t == sess'[id]
          IN  /\ s.State # "ESTABLISHED" /\ t.State = "ESTABLISHED" =>
                    /\ s.State = "OPEN_SENT"
                    /\ s.rx.type = "OPEN"
                    /\ FailedChecks(s.rx) = {}
              /\ OpenTaken(s, t) /\ FailedChecks(s.rx) # {} =>
                    /\ \E sub \in FailedChecks(s.rx) :
                          t.sent = s.sent \cup
                              {Queued("NOTIFICATION", "OPEN_MESSAGE_ERROR", sub)}
                    /\ t.pc = "wait"
                    /\ t.State = "IDLE"
                    /\ Queued("UPDATE", "", "") \notin t.sent]_vars

\* an attempt has ended on an OPEN with the router ID of the Session
C30_Witness ==
    \E id \in SessIds :
        /\ sess[id].pc = "wait"
        /\ sess[id].State = "IDLE"
        /\ sess[id].sent =
              {Queued("OPEN", "", ""),
               Queued("NOTIFICATION", "OPEN_MESSAGE_ERROR", "BAD_BGP_ID")}

\* the message m is an error of the state machine in the state st
FsmError(m, st) ==
    \/ m.type = "KEEPALIVE" /\ st = "OPEN_SENT"
    \/ m.type = "UPDATE" /\ st # "ESTABLISHED"
    \/ m.type = "OPEN" /\ st # "OPEN_SENT"

\* the step in which try takes a message from conn.C: the message is gone,
\* and try has not returned for its hold timer or on the channel of the
\* Session
MessageTaken(s, t) ==
    /\ s.pc = "try"
    /\ s.rx # NoMsg
    /\ t.rx = NoMsg
    /\ t.c = s.c
    /\ t.LastError \notin {"Sent notification: HOLD_TIMER_EXPIRED, 0",
                           "Sent notification: CEASE, ADMINISTRATIVE_SHUTDOWN"}

\* C31: a KEEPALIVE taken in OPEN_SENT, an UPDATE taken before ESTABLISHED
\* and an OPEN taken outside OPEN_SENT make try queue the NOTIFICATION
\* FSM_ERROR, and nothing else, and end the attempt; an UPDATE taken in
\* ESTABLISHED resets the hold timer and leaves the Session as it was.
C31_FsmErrors ==
    [][\A id \in SessIds :
          LET s == sess[id]
              t == sess'[id]
          IN  /\ MessageTaken(s, t) /\ FsmError(s.rx, s.State) =>
                    /\ t.sent = s.sent \cup {Queued("NOTIFICATION", "FSM_ERROR", "0")}
                    /\ t.pc = "wait"
                    /\ t.State = "IDLE"
                    /\ ~t.conn
              /\ MessageTaken(s, t) /\ s.rx.type = "UPDATE"
                    /\ s.State = "ESTABLISHED" =>
                    t = [s EXCEPT !.rx = NoMsg, !.hold = "reset"]]_vars

\* an attempt has ended on an OPEN that came when the Session was
\* ESTABLISHED
C31_Witness ==
    \E id \in SessIds :
        /\ sess[id].pc = "wait"
        /\ sess[id].LastError = "Sent notification: FSM_ERROR, 0"
        /\ Queued("KEEPALIVE", "", "") \in sess[id].sent
        /\ Queued("NOTIFICATION", "FSM_ERROR", "0") \in sess[id].sent

\* a Session that is ESTABLISHED, its hold time passed, has an UPDATE of the
\* peer to take
C31_UpdateDue ==
    \E id \in SessIds :
        /\ sess[id].pc = "try"
        /\ sess[id].State = "ESTABLISHED"
        /\ sess[id].rx.type = "UPDATE"
        /\ sess[id].hold = "due"

(***************************************************************************)
(* A Session whose peer gets Parameters with no communities, or with 1000  *)
(* communities, with which no prefix fits in an UPDATE, and a Reject       *)
(* prefix: the change from the first to the second makes an NLRI map with  *)
(* a withdrawal, which fits, and an advertisement, which does not.         *)
(***************************************************************************)

\* the Parameters the user gives the peer
CeaseParameters ==
    {[ZeroParameters EXCEPT !.Communities = 0],
     [ZeroParameters EXCEPT !.Communities = 1000, !.Reject = {{AddrFrom4(1)}}]}

\* the maps the user gives Pool.Configure
CeaseConfigs == [{1} -> CeaseParameters]

\* the lists the user gives Pool.RIB
CeaseRibs == {<<AddrFrom4(1), AddrFrom4(2)>>}

\* what the reader may offer on conn.C
CeaseMessages ==
    {Msg("closed"), Msg("KEEPALIVE"),
     [type |-> "OPEN", version |-> 4, holdTime |-> 3, routerID |-> <<10, 0, 0, 2>>]}

CeaseNext ==
    \/ \E m \in CeaseConfigs : PoolConfigure(m)
    \/ \E r \in CeaseRibs : PoolRIB(r)
    \/ \E id \in ThePeer : SessStore(id)
    \/ \E id \in ThePeer : SessTimer(id)
    \/ \E id \in ThePeer : \E how \in {"fail", "v4"} : FsmDial(id, how)
    \/ \E id \in ThePeer : FsmOpenSent(id)
    \/ \E id \in ThePeer : FsmTime(id)
    \/ \E id \in ThePeer : \E m \in CeaseMessages : PeerSends(id, m)
    \/ \E id \in ThePeer : FsmMessage(id)
    \/ \E id \in ThePeer : FsmAdvertise(id)
    \/ \E id \in ThePeer : FsmUpdate(id)
    \/ \E id \in ThePeer : FsmKeepalive(id)
    \/ \E id \in ThePeer : FsmHold(id)

SpecCease == MonOnlyInit /\ [][CeaseNext]_vars

\* the step in which try computes an NLRI map: after s.established, or for
\* an _update taken from the channel when ESTABLISHED
NlriStep(s, t) ==
    \/ s.pc = "advertise" /\ t.pc # "advertise"
    \/ /\ s.pc = "try"
       /\ s.State = "ESTABLISHED"
       /\ s.c # <<>>
       /\ t.c = Tail(s.c)

\* the NLRI map of that step
NlriOf(s) ==
    IF s.pc = "advertise" THEN Nlri(s.update, {}, s.ipv6, FALSE).nlri
    ELSE Nlri(Head(s.c), s.adjRIBOut, s.ipv6,
              Diff(s.parameters, Head(s.c).Parameters)).nlri

\* the Parameters of that step
ParametersOf(s) ==
    IF s.pc = "advertise" THEN s.update.Parameters ELSE Head(s.c).Parameters

\* a prefix of the NLRI map m does not fit alone in an UPDATE of u
TooLong(u, m) ==
    \E k \in DOMAIN m : MessageLen(u, Restrict(m, {k})) >= MaxBody

\* C32: when a prefix of an NLRI map does not fit alone in an UPDATE of
\* fewer than 4000 bytes, try queues no UPDATE for the map, not even for
\* the prefixes that fit, queues the NOTIFICATION CEASE/OUT_OF_RESOURCES
\* and returns.
C32_NoFragmentThenCease ==
    [][\A id \in SessIds :
          LET s == sess[id]
              t == sess'[id]
          IN  NlriStep(s, t) /\ TooLong(Template(ParametersOf(s)), NlriOf(s)) =>
                  /\ t.queued = <<>>
                  /\ t.sent = s.sent \cup
                        {Queued("NOTIFICATION", "CEASE", "OUT_OF_RESOURCES")}
                  /\ t.pc = "wait"
                  /\ t.State = "IDLE"
                  /\ ~t.conn]_vars

\* an attempt has ended with CEASE/OUT_OF_RESOURCES on an NLRI map that
\* withdraws an address, which fits in an UPDATE, and advertises another
C32_Witness ==
    \E id \in SessIds :
        /\ sess[id].pc = "wait"
        /\ sess[id].LastError = "Sent notification: CEASE, OUT_OF_RESOURCES"
        /\ Queued("NOTIFICATION", "CEASE", "OUT_OF_RESOURCES") \in sess[id].sent
        /\ sess[id].queued = <<>>
        /\ \E k \in DOMAIN sess[id].nlri : ~sess[id].nlri[k]
        /\ \E k \in DOMAIN sess[id].nlri : sess[id].nlri[k]

(***************************************************************************)
(* One connection: try queues KEEPALIVEs and the UPDATEs of the _updates   *)
(* it takes, at any moment before it returns, and closes the connection    *)
(* when it returns; the peer sends messages or ends the connection at any  *)
(* moment; a Write succeeds or fails.                                      *)
(***************************************************************************)

ConnNext ==
    \/ ConnDial
    \/ \E kind \in {"KEEPALIVE", "UPDATE", "UPDATES"} : ConnQueue(kind)
    \/ ConnClose
    \/ \E case \in {"closed", "reader_exit", "pending"} : WriterSelect(case)
    \/ WriterShift
    \/ \E ok \in BOOLEAN : WriterWrite(ok)
    \/ \E how \in {"message", "error"} : ReaderRead(how)
    \/ \E case \in {"C", "closed", "writer_exit"} : ReaderOffer(case)

\* The goroutines of the connection are scheduled: the writer takes a case
\* of its select that is ready and goes on in drain, a Write returns (its
\* deadline is 3 s), a ReadFull on a closed c.conn returns, and the reader
\* takes c.closed or c.writer_exit once it is closed.
ConnFairness ==
    /\ WF_vars(\E case \in {"closed", "reader_exit", "pending"} : WriterSelect(case))
    /\ WF_vars(WriterShift)
    /\ WF_vars(\E ok \in BOOLEAN : WriterWrite(ok))
    /\ WF_vars(connection.tcp = "closed" /\ ReaderRead("error"))
    /\ WF_vars(\E case \in {"closed", "writer_exit"} : ReaderOffer(case))

SpecConn == MonOnlyInit /\ [][ConnNext]_vars /\ ConnFairness

\* C33: the PDUs on the socket are the first PDUs given to conn.queue, in
\* the order in which they were given, each once; so the UPDATEs on the
\* socket are in the order of the _updates try took from its channel.
C33_WriterKeepsOrder ==
    LET c == connection
    IN  /\ Len(c.written) <= Len(c.queued)
        /\ \A i \in DOMAIN c.written : c.written[i] = c.queued[i]
        /\ \A i, j \in DOMAIN c.written :
              i < j => c.written[i].id < c.written[j].id
        /\ \A i, j \in DOMAIN c.written :
              (/\ i < j
               /\ c.written[i].type = "UPDATE"
               /\ c.written[j].type = "UPDATE") =>
                  c.written[i].update <= c.written[j].update

\* the writer, which has written a PDU, is in Write with the next while a
\* third waits in c.out
C33_Witness ==
    /\ connection.writer = "write"
    /\ Len(connection.written) >= 1
    /\ Len(connection.out) >= 1

\* C34: c.C is closed once, when the reader returns; after conn.close()
\* the writer returns, having written every PDU queued while it ran and
\* before the reader returned (unless a Write failed), c.conn is closed and
\* the reader returns, also when it waits to hand a message to try; after
\* the reader has returned the writer returns.
C34_CloseEndsBoth ==
    /\ [](connection.closes = IF connection.reader = "done" THEN 1 ELSE 0)
    /\ [](connection.writer = "done" <=> connection.tcp = "closed")
    /\ connection.closed ~>
          (/\ connection.writer = "done"
           /\ connection.tcp = "closed"
           /\ connection.reader = "done"
           /\ \/ connection.failed
              \/ \A i \in DOMAIN connection.queued :
                    connection.queued[i].timely => i <= Len(connection.written))
    /\ (connection.reader = "done") ~> (connection.writer = "done")

\* conn.close() has been called while the reader waits to hand a message to
\* try, and PDUs wait in c.out
C34_Witness ==
    /\ connection.closed
    /\ connection.reader = "offer"
    /\ connection.writer = "select"
    /\ Len(connection.out) >= 2

\* C37: a PDU given to conn.queue while the writer runs, before conn.close()
\* and before the reader has returned, is written to the socket in the end,
\* unless a Write fails.
C37_QueuedIsWritten ==
    \A n \in 1 .. MaxQueue :
        (Len(connection.queued) >= n /\ connection.queued[n].timely) ~>
            (Len(connection.written) >= n \/ connection.failed)

\* the writer, which has written a PDU, is back in its select, neither
\* c.closed nor c.reader_exit is closed, and a PDU queued since waits in
\* c.out
C37_Witness ==
    /\ connection.writer = "select"
    /\ ~connection.closed
    /\ connection.reader # "done"
    /\ Len(connection.written) >= 1
    /\ Len(connection.out) >= 1
    /\ connection.out[1].id = Len(connection.written) + 1
    /\ connection.pending = 1

\* the step in which the probe loop of id ends its first iteration
FirstTickDone(id) ==
    /\ loops[id].pc = "probe"
    /\ ~loops[id].was.Initialised
    /\ loops'[id].pc = "wait"

\* C35: the first iteration of a probe loop leaves status.OK as Init made
\* it, whatever the probe returned: it sets Initialised, stamps When,
\* signals Mon.C and calls no Notify.
C35_FirstTickKeepsOK ==
    [][\A id \in LoopIds :
          FirstTickDone(id) =>
              LET l == loops[id]
              IN  /\ loops'[id].status.OK = l.status.OK
                  /\ loops'[id].status.OK = l.history[1]
                  /\ loops'[id].status.Initialised
                  /\ l.When = "Update" /\ loops'[id].When = "probe"
                  /\ monC' = 1
                  /\ loops'[id].notified = l.notified
                  /\ \E ok \in BOOLEAN :
                        loops'[id] =
                            [l EXCEPT !.pc = "wait",
                                      !.status.Initialised = TRUE,
                                      !.When = "probe",
                                      !.history = Shift(l.history, ok)]]_vars

\* a probe loop made with Init has failed its first probe and is UP, a
\* signal waits in Mon.C, and Notify was called by Mon.monitor only
C35_Witness ==
    \E id \in LoopIds :
        /\ loops[id].pc = "wait"
        /\ loops[id].status = [OK |-> TRUE, Initialised |-> TRUE]
        /\ loops[id].When = "probe"
        /\ loops[id].history = [n \in 1 .. Window |-> n < Window]
        /\ loops[id].notified = <<TRUE>>
        /\ monC = 1

\* C36: once the channel of a Session is closed (Session.Close, Session.Stop)
\* its goroutine calls try no more, so it does not dial the peer again.
C36_NoDialAfterClose ==
    [][\A id \in SessIds :
          sess[id].closed => ~(sess[id].pc = "wait" /\ sess'[id].pc = "dial")]_vars

\* C38: when a Session becomes ESTABLISHED its adj-RIB-out was empty, and
\* the UPDATEs it queues then advertise every address of the latest RIB
\* given to the Session, filtered with the latest Parameters given to it,
\* and withdraw nothing.
C38_FirstUpdatesLatestRIB ==
    [][\A id \in SessIds :
          LET s == sess[id]
              t == sess'[id]
          IN  s.State = "OPEN_SENT" /\ t.State = "ESTABLISHED" =>
                  /\ s.adjRIBOut = {}
                  /\ t.prev = {}
                  /\ \A k \in DOMAIN t.nlri : t.nlri[k]
                  /\ \A a \in Range(Filter(s.p, s.ipv6, s.rib)) :
                        \E j \in DOMAIN t.queued : a \in Advertised(t.queued[j])]_vars

\* the same, for a Session whose channel is empty when it becomes
\* ESTABLISHED
C38_FirstUpdatesLatestTaken ==
    [][\A id \in SessIds :
          LET s == sess[id]
              t == sess'[id]
          IN  s.State = "OPEN_SENT" /\ t.State = "ESTABLISHED" /\ s.c = <<>> =>
                  /\ s.adjRIBOut = {}
                  /\ t.prev = {}
                  /\ \A k \in DOMAIN t.nlri : t.nlri[k]
                  /\ \A a \in Range(Filter(s.p, s.ipv6, s.rib)) :
                        \E j \in DOMAIN t.queued : a \in Advertised(t.queued[j])]_vars

(***************************************************************************)
(* A Session whose peer gets Parameters with another ASNumber, HoldTime,   *)
(* SourceIP, NextHop4 and NextHop6, alone or with another LocalPref, MED,  *)
(* Communities and Reject, at any moment of an attempt.                    *)
(***************************************************************************)

\* the Parameters the user gives first
FrameFirst == [ZeroParameters EXCEPT !.ASNumber = 65000, !.HoldTime = 2]

\* the same with the five values try reads at its start changed
FrameOther ==
    [FrameFirst EXCEPT !.ASNumber = 65001, !.HoldTime = 30,
                       !.SourceIP = <<10, 0, 0, 5>>,
                       !.NextHop4 = <<10, 0, 0, 7>>, !.NextHop6 = 7]

\* the Parameters the user gives the peer
FrameParameters ==
    {FrameFirst, FrameOther,
     [FrameOther EXCEPT !.LocalPref = 200, !.MED = 5, !.Communities = 1,
                        !.Reject = {{AddrFrom4(1)}}]}

\* the maps the user gives Pool.Configure
FrameConfigs == [{1} -> FrameParameters]

FrameNext ==
    \/ \E m \in FrameConfigs : PoolConfigure(m)
    \/ \E r \in CeaseRibs : PoolRIB(r)
    \/ \E id \in ThePeer : SessStore(id)
    \/ \E id \in ThePeer : SessTimer(id)
    \/ \E id \in ThePeer : \E how \in {"fail", "v4", "v6"} : FsmDial(id, how)
    \/ \E id \in ThePeer : FsmOpenSent(id)
    \/ \E id \in ThePeer : FsmTime(id)
    \/ \E id \in ThePeer : \E m \in CeaseMessages : PeerSends(id, m)
    \/ \E id \in ThePeer : FsmMessage(id)
    \/ \E id \in ThePeer : FsmAdvertise(id)
    \/ \E id \in ThePeer : FsmUpdate(id)
    \/ \E id \in ThePeer : FsmKeepalive(id)
    \/ \E id \in ThePeer : FsmHold(id)

SpecFrame == MonOnlyInit /\ [][FrameNext]_vars

\* try takes an _update from the channel of the Session
UpdateTaken(s, t) ==
    /\ s.pc = "try"
    /\ s.c # <<>>
    /\ t.c = Tail(s.c)

\* the locals of try that the hold time negotiation leaves alone
Framing(l) == [l EXCEPT !.holdtime = 0]

\* C39: an _update that try takes from the channel while the Session is
\* connected leaves the connection open, the state as it was and the locals
\* that try read at its start (AS number, hold time, source address, next
\* hops) as they were, and queues no OPEN; in ESTABLISHED the update made
\* from the template has the AS number and the next hops of these locals
\* and the LocalPref, MED and Communities of the new Parameters, and the
\* adj-RIB-out is the RIB filtered by the new Accept and Reject. Within an
\* attempt the locals change only when the next hops get their defaults,
\* before the select loop, and when the OPEN of the peer has a lower hold
\* time. (The UPDATEs of these Parameters all fit: no CEASE.)
C39_ConfigureKeepsAttempt ==
    [][\A id \in SessIds :
          LET s == sess[id]
              t == sess'[id]
              r == Head(s.c)
          IN  /\ UpdateTaken(s, t) =>
                    /\ t.pc = "try"
                    /\ t.conn
                    /\ t.State = s.State
                    /\ t.locals = s.locals
                    /\ t.update = r
                    /\ t.sent \ s.sent \subseteq {Queued("UPDATE", "", "")}
                    /\ s.State = "ESTABLISHED" =>
                          /\ t.u.ASNumber = s.locals.asnumber
                          /\ t.u.NextHop = s.locals.nexthop4
                          /\ t.u.NextHop6 = s.locals.nexthop6
                          /\ t.u.Multiprotocol = s.locals.multiprotocol
                          /\ t.u.LocalPref = r.Parameters.LocalPref
                          /\ t.u.MED = r.Parameters.MED
                          /\ t.u.Communities = r.Parameters.Communities
                          /\ t.adjRIBOut = Range(Filter(r.Parameters, s.ipv6, r.RIB))
                          /\ t.queued \in
                                Updates(t.u, Nlri(r, s.adjRIBOut, s.ipv6,
                                                  Diff(s.parameters, r.Parameters)).nlri)
              /\ s.pc \in {"try", "advertise"} /\ t.pc \in {"try", "advertise"} =>
                    /\ Framing(t.locals) = Framing(s.locals)
                    /\ t.locals.holdtime # s.locals.holdtime =>
                          /\ s.rx.type = "OPEN"
                          /\ t.locals.holdtime = s.rx.holdTime
              /\ s.pc \in {"dial", "connected"} /\ t.pc \in {"connected", "try"} =>
                    /\ t.locals.asnumber = s.locals.asnumber
                    /\ t.locals.holdtime = s.locals.holdtime
                    /\ t.locals.sourceip = s.locals.sourceip
                    /\ t.locals.multiprotocol = s.locals.multiprotocol
      ]_vars

\* an ESTABLISHED Session that began its attempt with the first Parameters
\* and has taken the last ones: the update it made has the old AS number
\* and next hop and the new LocalPref, and an UPDATE is queued
C39_Witness ==
    \E id \in SessIds :
        /\ sess[id].pc = "try"
        /\ sess[id].State = "ESTABLISHED"
        /\ sess[id].update.Parameters.ASNumber = 65001
        /\ sess[id].update.Parameters.LocalPref = 200
        /\ sess[id].locals.asnumber = 65000
        /\ sess[id].u.ASNumber = 65000
        /\ sess[id].u.NextHop = LocalAddrs.v4
        /\ sess[id].u.LocalPref = 200
        /\ sess[id].queued # <<>>
        /\ Queued("UPDATE", "", "") \in sess[id].sent

(***************************************************************************)
(* The map a caller hands to Mon.Update, as the caller finds it after the  *)
(* call: two Instances, monitored or not at the time of the call, a caller *)
(* that may add an Instance again while an earlier loop of it is alive.    *)
(***************************************************************************)

\* the Instances of the caller's maps: one service, two destinations
TargetInstances ==
    {i \in Instances :
        /\ i.Service = [Address |-> 1, Port |-> 80, Protocol |-> TCP]
        /\ i.Destination.Port = 80}

\* the maps the caller hands to Mon.Update
CallerMaps ==
    UNION {[S -> [Init : {FALSE}, Checks : {0}]] : S \in SUBSET TargetInstances}

\* the caller makes the map, calls m.Update(checks) and reads its map:
\* arg is the map as it was made, res the map after the call
CallerUpdate(checks) ==
    /\ MonUpdate(checks)
    /\ arg' = <<checks>>
    /\ res' = <<UpdatedChecks(checks)>>
    /\ UNCHANGED <<dirVars, bgpVars>>

TargetsNext ==
    \/ \E checks \in CallerMaps : CallerUpdate(checks)
    \/ \E id \in LoopIds : LoopRecv(id) /\ UNCHANGED <<dirVars, restVars>>
    \/ TakeC /\ UNCHANGED <<dirVars, restVars>>

SpecTargets == MonOnlyInit /\ [][TargetsNext]_vars

\* the Instances for which the step has started a probe loop
Started ==
    {i \in Instances :
        \E k \in Slots : loops[<<i, k>>].pc = "free" /\ loops'[<<i, k>>].pc # "free"}

\* C40: after Mon.Update the caller's map holds no Instance that was
\* monitored at the call and every other Instance it held, with its Target;
\* these are the Instances for which the call has started a probe loop, and
\* the ones newly in m.services.
C40_CallerMapHoldsNew ==
    [][\A checks \in CallerMaps :
          CallerUpdate(checks) =>
              /\ DOMAIN res'[1] = {i \in DOMAIN checks : services[i] = 0}
              /\ \A i \in DOMAIN res'[1] : res'[1][i] = checks[i]
              /\ DOMAIN res'[1] = Started
              /\ DOMAIN res'[1] = {i \in Instances : services[i] = 0 /\ services'[i] # 0}
              /\ \A i \in DOMAIN res'[1] :
                    loops'[<<i, services'[i]>>] = NewLoop(checks[i])
      ]_vars

\* the caller handed a map of two Instances, one of them monitored, and
\* finds the other one alone in its map
C40_Witness ==
    /\ arg # <<>>
    /\ Cardinality(DOMAIN arg[1]) = 2
    /\ Cardinality(DOMAIN res[1]) = 1
    /\ \A i \in DOMAIN arg[1] : services[i] # 0
    /\ \E i \in DOMAIN arg[1] \ DOMAIN res[1] :
          loops[<<i, services[i]>>].q # <<>>

====
